---- MODULE Spec2Model ----
(***************************************************************************)
(* A model of the ingestion-booster skeleton                               *)
(* (src/gavo/resources/src/boosterskel.c): the text parsing primitives,    *)
(* the value transforms, the binary encoder for the PGCOPY wire format and *)
(* the dump driver createDumpfile.                                         *)
(*                                                                         *)
(* Conventions.                                                            *)
(*  - A C string is a sequence of one-character strings.                   *)
(*  - A byte is a number in 0..255; the output stream is a sequence of     *)
(*    bytes.                                                               *)
(*  - A float or double payload is the pair <<num, den>> (den > 0, lowest  *)
(*    terms) of the rational number the C value is nearest to; its         *)
(*    IEEE-754 image is computed, with rounding, when it is written.       *)
(*  - An object in memory is laid out by ObjectBytes according to the      *)
(*    host's byte order; htons/htonl and mirrorBytes act as they do on     *)
(*    that host.                                                           *)
(***************************************************************************)
EXTENDS Integers, Sequences, FiniteSets, TLC

VARIABLES
    host,        \* __BYTE_ORDER of the build: "LE" or "BE"
    tz,          \* seconds east of UTC of the local time zone (mktime)
    PqEpoch,     \* static time_t PqEpoch
    pc,          \* position of the process
    call,        \* the call a unit specification makes: function and arguments
    field,       \* the Field a primitive, transform or writeField works on
    argc,        \* main's argc
    openOk,      \* whether fopen(argv[1]) succeeds
    inF,         \* the input stream: its records and the read position
    inputLine,   \* createDumpfile's inputLine
    tuple,       \* the Field array getTuple returned
    curField,    \* writeTuple's curField-fields
    lncount,     \* createDumpfile's lncount
    out,         \* bytes written to stdout (destination)
    err,         \* lines written to stderr
    exitStatus   \* -1 while running, else the process's exit status

vars == <<host, tz, PqEpoch, pc, call, field, argc, openOk, inF, inputLine,
          tuple, curField, lncount, out, err, exitStatus>>

driverVars == <<argc, openOk, inF, inputLine, tuple, curField, lncount>>

-----------------------------------------------------------------------------
(* Sequences and arithmetic helpers *)

RECURSIVE Reverse(_)
Reverse(s) == IF s = <<>> THEN <<>> ELSE Append(Reverse(Tail(s)), Head(s))

RECURSIVE Pow2(_)
Pow2(n) == IF n = 0 THEN 1 ELSE 2 * Pow2(n - 1)

Abs(x) == IF x < 0 THEN -x ELSE x

\* C's integer division: truncation toward zero (b > 0).
CDiv(a, b) == IF a >= 0 THEN a \div b ELSE -((-a) \div b)

\* floor(a / b) for b > 0.
FloorDiv(a, b) == a \div b

RECURSIVE Gcd(_, _)
Gcd(a, b) == IF b = 0 THEN a ELSE Gcd(b, a % b)

\* The rational n/d (d # 0) in lowest terms with a positive denominator.
Rat(n, d) ==
    LET g == Gcd(Abs(n), Abs(d))
        s == IF d < 0 THEN -1 ELSE 1
    IN  IF n = 0 THEN <<0, 1>> ELSE <<s * (n \div g), s * (d \div g)>>

RatAdd(p, q) == Rat(p[1] * q[2] + q[1] * p[2], p[2] * q[2])
RatMul(p, q) == Rat(p[1] * q[1], p[2] * q[2])
\* trunc(q): the integer part, toward zero.
RatTrunc(q) == CDiv(q[1], q[2])
\* floor(q)
RatFloor(q) == FloorDiv(q[1], q[2])

-----------------------------------------------------------------------------
(* Characters *)

\* <ctype.h> isspace in the C locale.
isspace(c) == c \in {" ", "\t", "\n", "\r", "\f"}

isdigit(c) == c \in {"0", "1", "2", "3", "4", "5", "6", "7", "8", "9"}

DigitVal(c) ==
    CASE c = "0" -> 0 [] c = "1" -> 1 [] c = "2" -> 2 [] c = "3" -> 3
      [] c = "4" -> 4 [] c = "5" -> 5 [] c = "6" -> 6 [] c = "7" -> 7
      [] c = "8" -> 8 [] c = "9" -> 9

\* The byte of a character (ASCII), for the characters the model uses.
Ord(c) ==
    CASE c = " " -> 32 [] c = "\t" -> 9 [] c = "\n" -> 10 [] c = "-" -> 45
      [] c = "." -> 46 [] c = "x" -> 120 [] c = "N" -> 78
      [] isdigit(c) -> 48 + DigitVal(c)

-----------------------------------------------------------------------------
(* Objects in memory *)

\* The two's-complement numeral of v in n bytes, most significant byte
\* first (v within the 32-bit range; wider objects are sign-extended).
RECURSIVE Numeral(_, _)
Numeral(v, n) ==
    IF n = 0 THEN <<>> ELSE Append(Numeral(v \div 256, n - 1), v % 256)

\* The value of an n-byte big-endian two's-complement numeral (n <= 4).
RECURSIVE UnsignedOf(_)
UnsignedOf(bs) ==
    IF bs = <<>> THEN 0
    ELSE UnsignedOf(SubSeq(bs, 1, Len(bs) - 1)) * 256 + bs[Len(bs)]

SignedOf(bs) ==
    IF bs[1] >= 128 THEN UnsignedOf(<<bs[1] - 256>> \o Tail(bs))
    ELSE UnsignedOf(bs)

\* How the host lays out in memory an object whose numeral is bs: lowest
\* address first.
ObjectBytes(bs, h) == IF h = "LE" THEN Reverse(bs) ELSE bs


-----------------------------------------------------------------------------
(* IEEE-754 images of float and double values *)

\* The largest k >= k0 with b * 2^k <= a  (a >= b * 2^k0 > 0).
RECURSIVE ExpUp(_, _, _)
ExpUp(a, b, k) == IF b * Pow2(k + 1) <= a THEN ExpUp(a, b, k + 1) ELSE k

\* The smallest k >= k0 with a * 2^k >= b  (a > 0).
RECURSIVE ExpDown(_, _, _)
ExpDown(a, b, k) == IF a * Pow2(k) >= b THEN k ELSE ExpDown(a, b, k + 1)

\* n base-256 digits of r/b (0 <= r < b) after the point, and what is left.
RECURSIVE FracDigits(_, _, _)
FracDigits(r, b, n) ==
    IF n = 0 THEN [digits |-> <<>>, rem |-> r]
    ELSE LET d    == (256 * r) \div b
             rest == FracDigits(256 * r - d * b, b, n - 1)
         IN  [digits |-> <<d>> \o rest.digits, rem |-> rest.rem]

\* digits + 1 as a base-256 numeral of the same length, and the carry out.
RECURSIVE DigitsInc(_)
DigitsInc(ds) ==
    IF ds = <<>> THEN [digits |-> <<>>, carry |-> 1]
    ELSE LET n == Len(ds)
         IN  IF ds[n] < 255
             THEN [digits |-> SubSeq(ds, 1, n - 1) \o <<ds[n] + 1>>, carry |-> 0]
             ELSE LET up == DigitsInc(SubSeq(ds, 1, n - 1))
                  IN  [digits |-> up.digits \o <<0>>, carry |-> up.carry]

\* The numeral (sign, biased exponent, fraction; most significant byte
\* first) of the binary floating-point number nearest to q, ties to even,
\* for q in the normal range of the format.  The format has ebits exponent
\* bits and a fraction of topbits + 8 * nbytes bits, where
\* 1 + ebits + topbits = 16.
IeeeNumeral(q, ebits, topbits, nbytes, bias) ==
    IF q[1] = 0 THEN [i \in 1..(2 + nbytes) |-> 0]
    ELSE LET a    == Abs(q[1])
             b    == q[2]
             E    == IF a >= b THEN ExpUp(a, b, 0) ELSE -ExpDown(a, b, 1)
             a1   == IF E < 0 THEN a * Pow2(-E) ELSE a
             b1   == IF E < 0 THEN b ELSE b * Pow2(E)
             \* the fraction's leading topbits bits, then its bytes
             top  == (Pow2(topbits) * (a1 - b1)) \div b1
             fr   == FracDigits(Pow2(topbits) * (a1 - b1) - top * b1, b1, nbytes)
             last == IF nbytes = 0 THEN top ELSE fr.digits[nbytes]
             up   == \/ 2 * fr.rem > b1
                     \/ 2 * fr.rem = b1 /\ last % 2 = 1
             inc  == DigitsInc(fr.digits)
             low  == IF up THEN inc.digits ELSE fr.digits
             top1 == IF up /\ inc.carry = 1 THEN top + 1 ELSE top
             top2 == top1 % Pow2(topbits)
             e    == bias + (IF top1 = Pow2(topbits) THEN E + 1 ELSE E)
             sign == IF q[1] < 0 THEN 1 ELSE 0
             e_lo == Pow2(ebits - 7)
         IN  <<sign * 128 + e \div e_lo, (e % e_lo) * Pow2(topbits) + top2>>
                 \o low

\* float: IEEE-754 binary32;  double: IEEE-754 binary64.
FloatNumeral(q) == IeeeNumeral(q, 8, 7, 2, 127)
DoubleNumeral(q) == IeeeNumeral(q, 11, 4, 6, 1023)

-----------------------------------------------------------------------------
(* The tagged value model *)

\* valType.  VAL_BIGINT is the tag boosterskel.c adds to the header's list.
valType ==
    {"VAL_NULL", "VAL_BOOL", "VAL_CHAR", "VAL_SHORT", "VAL_INT", "VAL_BIGINT",
     "VAL_FLOAT", "VAL_DOUBLE", "VAL_TEXT", "VAL_JDATE", "VAL_DATE",
     "VAL_DATETIME"}

\* A type code that is none of the enumerators (a Field the extraction
\* driver left unset or set wrongly).
VAL_OTHER == "VAL_OTHER"

\* The members of Field.val.  In C they share their storage; the model
\* keeps one slot per member, and only the member the tag selects is read.
ValZero ==
    [c_ptr |-> <<>>, c_double |-> <<0, 1>>, c_float |-> <<0, 1>>,
     c_int64 |-> 0, c_int32 |-> 0, c_int16 |-> 0, c_int8 |-> 0, time |-> 0]

\* struct Field_s
Field(type, length, val) == [type |-> type, length |-> length, val |-> val]

-----------------------------------------------------------------------------
(* The value transforms.  The arithmetic is C's double arithmetic, which    *)
(* is exact on the values the specifications draw from (dyadic fractions    *)
(* of a few bits).                                                           *)

\* offset + value*factor
Linear(value, offset, factor) == RatAdd(offset, RatMul(value, factor))

\* Mutant: linearTransform with a case for VAL_SHORT as well.
linearTransform_short(f, offset, factor) ==
    CASE f.type = "VAL_FLOAT" ->
            [f EXCEPT !.val.c_float = Linear(f.val.c_float, offset, factor)]
      [] f.type = "VAL_DOUBLE" ->
            [f EXCEPT !.val.c_double = Linear(f.val.c_double, offset, factor)]
      [] f.type = "VAL_INT" ->
            [f EXCEPT !.val.c_int32 =
                RatTrunc(Linear(<<f.val.c_int32, 1>>, offset, factor))]
      [] f.type = "VAL_SHORT" ->
            [f EXCEPT !.val.c_int16 =
                RatTrunc(Linear(<<f.val.c_int16, 1>>, offset, factor))]
      [] OTHER -> f

\* linearTransform(field, offset, factor): the Field afterwards.  The
\* assignment to c_int32 converts the double, dropping its fraction.
linearTransform(f, offset, factor) ==
    CASE f.type = "VAL_FLOAT" ->
            [f EXCEPT !.val.c_float = Linear(f.val.c_float, offset, factor)]
      [] f.type = "VAL_DOUBLE" ->
            [f EXCEPT !.val.c_double = Linear(f.val.c_double, offset, factor)]
      [] f.type = "VAL_INT" ->
            [f EXCEPT !.val.c_int32 =
                RatTrunc(Linear(<<f.val.c_int32, 1>>, offset, factor))]
      [] OTHER -> f

-----------------------------------------------------------------------------
(* The text parsing primitives.  A buffer is a sequence of characters in    *)
(* which NUL ends a C string; past the buffer's last character lies its     *)
(* terminator.  A primitive yields the Field it leaves, or dies.            *)

NUL == "NUL"

\* strncpy(dest, src+start, len); dest[len] = 0: the string in dest.
RECURSIVE strncpy(_, _, _)
strncpy(src, start, len) ==
    IF len = 0 \/ start + 1 > Len(src) \/ src[start + 1] = NUL THEN <<>>
    ELSE <<src[start + 1]>> \o strncpy(src, start + 1, len - 1)

RECURSIVE SkipSpace(_)
SkipSpace(str) ==
    IF str # <<>> /\ isspace(Head(str)) THEN SkipSpace(Tail(str)) ELSE str

RECURSIVE DropTrailingSpace(_)
DropTrailingSpace(str) ==
    IF str # <<>> /\ isspace(str[Len(str)])
    THEN DropTrailingSpace(SubSeq(str, 1, Len(str) - 1))
    ELSE str

\* stripWhitespace(str): the string afterwards.
stripWhitespace(str) ==
    LET cp == SkipSpace(str)
    IN  IF cp = <<>> THEN <<>> ELSE DropTrailingSpace(cp)

\* copyString(src, dest, start, len): the string left in dest.
copyString(src, start, len) == stripWhitespace(strncpy(src, start, len))

\* Mutant: isWhitespaceOnly that wants at least one character.
isWhitespaceOnly_nonempty(str) ==
    str # <<>> /\ \A i \in 1..Len(str) : isspace(str[i])

isWhitespaceOnly(str) == \A i \in 1..Len(str) : isspace(str[i])

\* The longest run of digits that str starts with.
RECURSIVE Digits(_)
Digits(str) ==
    IF str # <<>> /\ isdigit(Head(str)) THEN <<Head(str)>> \o Digits(Tail(str))
    ELSE <<>>

RECURSIVE DecimalValue(_)
DecimalValue(ds) ==
    IF ds = <<>> THEN 0
    ELSE 10 * DecimalValue(SubSeq(ds, 1, Len(ds) - 1)) + DigitVal(ds[Len(ds)])

RECURSIVE Pow10(_)
Pow10(n) == IF n = 0 THEN 1 ELSE 10 * Pow10(n - 1)

Drop(str, n) == SubSeq(str, n + 1, Len(str))

\* sscanf(input, "%d" | "%Ld" | "%hd", &v): the return value (-1 is EOF),
\* the value stored, and the characters of input it consumed.
sscanf_d(input) ==
    LET s1   == SkipSpace(input)
        neg  == s1 # <<>> /\ Head(s1) = "-"
        s2   == IF neg THEN Tail(s1) ELSE s1
        ds   == Digits(s2)
        used == Len(input) - Len(s2) + Len(ds)
    IN  IF s1 = <<>> THEN [n |-> -1, val |-> 0, used |-> Len(input)]
        ELSE IF ds = <<>> THEN [n |-> 0, val |-> 0, used |-> 0]
        ELSE [n |-> 1,
              val |-> IF neg THEN -DecimalValue(ds) ELSE DecimalValue(ds),
              used |-> used]

\* sscanf(input, "%f" | "%lf", &v) on decimal literals without exponent:
\* digits with an optional point, or a point followed by digits.
sscanf_f(input) ==
    LET s1    == SkipSpace(input)
        neg   == s1 # <<>> /\ Head(s1) = "-"
        s2    == IF neg THEN Tail(s1) ELSE s1
        ip    == Digits(s2)
        s3    == Drop(s2, Len(ip))
        point == s3 # <<>> /\ Head(s3) = "."
        fp    == IF point THEN Digits(Tail(s3)) ELSE <<>>
        mag   == Rat(DecimalValue(ip \o fp), Pow10(Len(fp)))
        used  == Len(input) - Len(s2) + Len(ip)
                     + (IF point THEN 1 + Len(fp) ELSE 0)
    IN  IF s1 = <<>> THEN [n |-> -1, val |-> <<0, 1>>, used |-> Len(input)]
        ELSE IF ip = <<>> /\ fp = <<>> THEN [n |-> 0, val |-> <<0, 1>>, used |-> 0]
        ELSE [n |-> 1,
              val |-> IF neg THEN <<-mag[1], mag[2]>> ELSE mag,
              used |-> used]

\* What a primitive leaves: the Field, or the diagnostic it died with.
Yields(f) == [died |-> FALSE, field |-> f, msg |-> ""]
Dies(msg) == [died |-> TRUE, field |-> Field("VAL_NULL", 0, ValZero), msg |-> msg]

\* scanfWithWhitespace(input, format, field, expType), the field's type
\* having been set: scan is sscanf's result and member the member of
\* Field.val that expType* points at.
scanfWithWhitespace(input, scan, f, member) ==
    IF scan.n # 1
    THEN IF ~isWhitespaceOnly(input) THEN Dies("Invalid literal")
         ELSE Yields([f EXCEPT !.type = "VAL_NULL"])
    ELSE Yields([f EXCEPT !.val[member] = scan.val])

\* Mutant: parseFloatWithMagicNULL that compares after the numeric parse.
parseFloatWithMagicNULL_late(src, f, start, len, magicVal) ==
    LET input == copyString(src, start, len)
        r     == scanfWithWhitespace(input, sscanf_f(input),
                                     [f EXCEPT !.type = "VAL_FLOAT"], "c_float")
    IN  IF ~r.died /\ input = magicVal
        THEN Yields([f EXCEPT !.type = "VAL_NULL"])
        ELSE r

parseFloatWithMagicNULL(src, f, start, len, magicVal) ==
    LET input == copyString(src, start, len)
    IN  IF input = magicVal THEN Yields([f EXCEPT !.type = "VAL_NULL"])
        ELSE scanfWithWhitespace(input, sscanf_f(input),
                                 [f EXCEPT !.type = "VAL_FLOAT"], "c_float")

parseFloat(src, f, start, len) ==
    LET input == copyString(src, start, len)
    IN  scanfWithWhitespace(input, sscanf_f(input),
                            [f EXCEPT !.type = "VAL_FLOAT"], "c_float")

parseDouble(src, f, start, len) ==
    LET input == copyString(src, start, len)
    IN  scanfWithWhitespace(input, sscanf_f(input),
                            [f EXCEPT !.type = "VAL_DOUBLE"], "c_double")

parseBigint(src, f, start, len) ==
    LET input == copyString(src, start, len)
    IN  scanfWithWhitespace(input, sscanf_d(input),
                            [f EXCEPT !.type = "VAL_BIGINT"], "c_int64")

parseInt(src, f, start, len) ==
    LET input == copyString(src, start, len)
    IN  scanfWithWhitespace(input, sscanf_d(input),
                            [f EXCEPT !.type = "VAL_INT"], "c_int32")

\* The character at src[srcInd]; past the buffer lies its terminator.
CharAt(src, srcInd) == IF srcInd + 1 > Len(src) THEN NUL ELSE src[srcInd + 1]

parseBlankBoolean(src, f, srcInd) ==
    IF isspace(CharAt(src, srcInd))
    THEN Yields([f EXCEPT !.type = "VAL_BOOL", !.val.c_int8 = 0])
    ELSE Yields([f EXCEPT !.type = "VAL_BOOL", !.val.c_int8 = 1])

parseString(src, f, start, len) ==
    LET space == copyString(src, start, len)
    IN  Yields([f EXCEPT !.length = len, !.type = "VAL_TEXT",
                         !.val.c_ptr = space])

parseStringWithMagicNULL(src, f, start, len, magic) ==
    LET r     == parseString(src, f, start, len)
        space == r.field.val.c_ptr
    IN  IF space = magic THEN Yields([r.field EXCEPT !.type = "VAL_NULL"])
        ELSE r

parseChar(src, f, srcInd) ==
    IF isspace(CharAt(src, srcInd))
    THEN Yields([f EXCEPT !.type = "VAL_NULL"])
    ELSE Yields([f EXCEPT !.type = "VAL_CHAR",
                          !.val.c_int8 = IF CharAt(src, srcInd) = NUL THEN 0
                                         ELSE Ord(CharAt(src, srcInd))])

-----------------------------------------------------------------------------
(* The binary encoder.  Each write* operator is the sequence of bytes the    *)
(* function passes to DATA_OUT, in order.                                    *)

\* Mutant: htonl that leaves the numeral as it is on every host.
htonl_asis(bs, h) == bs

\* Mutant: htons returning its argument unchanged.
htons_asis(bs, h) == bs

\* <arpa/inet.h> htons, htonl, on the numeral of the argument: the numeral
\* of the result.
htons(bs, h) == IF h = "LE" THEN Reverse(bs) ELSE bs
htonl(bs, h) == IF h = "LE" THEN Reverse(bs) ELSE bs

\* DATA_OUT(&object, nbytes, destination): the object's bytes as they lie in
\* memory.
DATA_OUT(bs, h) == ObjectBytes(bs, h)

\* The bytes of a string literal or buffer, which lie in memory in order.
RECURSIVE StringBytes(_)
StringBytes(str) ==
    IF str = <<>> THEN <<>> ELSE <<Ord(Head(str))>> \o StringBytes(Tail(str))

\* Mutant: writeHeader without the header extension length word.
writeHeader_noExtension(h) ==
    LET header == <<80, 71, 67, 79, 80, 89, 10, 255, 13, 10, 0>>
        flags  == Numeral(0, 4)
    IN  header \o DATA_OUT(flags, h)

\* writeHeader: the signature "PGCOPY\n\377\r\n\0" (11 bytes), the flags and
\* the header extension length.
writeHeader(h) ==
    LET header       == <<80, 71, 67, 79, 80, 89, 10, 255, 13, 10, 0>>
        flags        == Numeral(0, 4)
        headerLength == Numeral(0, 4)
    IN  header \o DATA_OUT(flags, h) \o DATA_OUT(headerLength, h)

writeBoolean(f, h) ==
    LET head == <<0, 0, 0, 1>>
    IN  head \o DATA_OUT(Numeral(f.val.c_int8, 1), h)

writeShort(f, h) ==
    LET head == <<0, 0, 0, 2>>
        val  == htons(Numeral(f.val.c_int16, 2), h)
    IN  head \o DATA_OUT(val, h)

writeInteger(f, h) ==
    LET head == <<0, 0, 0, 4>>
        val  == htonl(Numeral(f.val.c_int32, 4), h)
    IN  head \o DATA_OUT(val, h)

\* The swap loop of mirrorBytes on a buffer: first and last exchanged, then
\* inward.
RECURSIVE SwapEnds(_)
SwapEnds(mem) ==
    IF Len(mem) <= 1 THEN mem
    ELSE <<mem[Len(mem)]>> \o SwapEnds(SubSeq(mem, 2, Len(mem) - 1)) \o <<mem[1]>>

\* Mutant: mirrorBytes without the test for a big-endian host.
mirrorBytes_always(mem, h) == SwapEnds(mem)

\* Mutant: mirrorBytes that never swaps.
mirrorBytes_never(mem, h) == mem

\* mirrorBytes(mem, numBytes): the buffer afterwards.
mirrorBytes(mem, h) == IF h = "BE" THEN mem ELSE SwapEnds(mem)

writeBigint(f, h) ==
    LET size == htonl(Numeral(8, 4), h)
        val  == mirrorBytes(ObjectBytes(Numeral(f.val.c_int64, 8), h), h)
    IN  DATA_OUT(size, h) \o val

writeFloat(f, h) ==
    LET size == htonl(Numeral(4, 4), h)
        val  == mirrorBytes(ObjectBytes(FloatNumeral(f.val.c_float), h), h)
    IN  DATA_OUT(size, h) \o val

writeDouble(f, h) ==
    LET size == htonl(Numeral(8, 4), h)
        val  == mirrorBytes(ObjectBytes(DoubleNumeral(f.val.c_double), h), h)
    IN  DATA_OUT(size, h) \o val

\* strlen: the model's strings hold no NUL.
strlen(str) == Len(str)

\* Mutant: writeText that takes the size from Field.length.
writeText_declaredLength(f, h) ==
    LET size == htonl(Numeral(f.length, 4), h)
    IN  DATA_OUT(size, h) \o StringBytes(f.val.c_ptr)

writeText(f, h) ==
    LET len  == strlen(f.val.c_ptr)
        size == htonl(Numeral(len, 4), h)
    IN  DATA_OUT(size, h) \o StringBytes(f.val.c_ptr)

\* The file's own round(): floor(val + 0.5).
round(q) == RatFloor(RatAdd(q, <<1, 2>>))

writeJdate(f, h) ==
    LET years          == RatAdd(f.val.c_float, <<-2000, 1>>)
        daysSinceEpoch == htonl(Numeral(round(RatMul(years, <<1461, 4>>)), 4), h)
        size           == htonl(Numeral(4, 4), h)
    IN  DATA_OUT(size, h) \o DATA_OUT(daysSinceEpoch, h)

writeDate(f, h, epoch) ==
    LET daysSinceEpoch == htonl(Numeral(CDiv(f.val.time - epoch, 86400), 4), h)
        size           == htonl(Numeral(4, 4), h)
    IN  DATA_OUT(size, h) \o DATA_OUT(daysSinceEpoch, h)

\* bs * k + c modulo 256^Len(bs), on numerals (64-bit arithmetic).
RECURSIVE MulNumeral(_, _, _)
MulNumeral(bs, k, c) ==
    IF bs = <<>> THEN <<>>
    ELSE LET n == Len(bs)
             t == bs[n] * k + c
         IN  Append(MulNumeral(SubSeq(bs, 1, n - 1), k, t \div 256), t % 256)

\* HAVE_INT64_TIMESTAMP is defined.
writeDatetime(f, h, epoch) ==
    LET secs            == Numeral(f.val.time - epoch, 8)
        usecsSinceEpoch == MulNumeral(secs, 1000000, 0)
        size            == htonl(Numeral(8, 4), h)
    IN  DATA_OUT(size, h) \o mirrorBytes(ObjectBytes(usecsSinceEpoch, h), h)

\* Mutant: writeField whose default case returns without writing.
writeField_ignoresUnknown(f, h, epoch) ==
    LET nullValue == htonl(Numeral(-1, 4), h)
        wrote(bs) == [died |-> FALSE, bytes |-> bs]
    IN  CASE f.type = "VAL_NULL"     -> wrote(DATA_OUT(nullValue, h))
          [] f.type = "VAL_BOOL"     -> wrote(writeBoolean(f, h))
          [] f.type = "VAL_CHAR"     -> wrote(writeBoolean(f, h))
          [] f.type = "VAL_SHORT"    -> wrote(writeShort(f, h))
          [] f.type = "VAL_INT"      -> wrote(writeInteger(f, h))
          [] f.type = "VAL_BIGINT"   -> wrote(writeBigint(f, h))
          [] f.type = "VAL_FLOAT"    -> wrote(writeFloat(f, h))
          [] f.type = "VAL_DOUBLE"   -> wrote(writeDouble(f, h))
          [] f.type = "VAL_TEXT"     -> wrote(writeText(f, h))
          [] f.type = "VAL_JDATE"    -> wrote(writeJdate(f, h))
          [] f.type = "VAL_DATE"     -> wrote(writeDate(f, h, epoch))
          [] f.type = "VAL_DATETIME" -> wrote(writeDatetime(f, h, epoch))
          [] OTHER                   -> wrote(<<>>)

\* writeField: the bytes written, or die.
writeField(f, h, epoch) ==
    LET nullValue == htonl(Numeral(-1, 4), h)
        wrote(bs) == [died |-> FALSE, bytes |-> bs]
    IN  CASE f.type = "VAL_NULL"     -> wrote(DATA_OUT(nullValue, h))
          [] f.type = "VAL_BOOL"     -> wrote(writeBoolean(f, h))
          [] f.type = "VAL_CHAR"     -> wrote(writeBoolean(f, h))
          [] f.type = "VAL_SHORT"    -> wrote(writeShort(f, h))
          [] f.type = "VAL_INT"      -> wrote(writeInteger(f, h))
          [] f.type = "VAL_BIGINT"   -> wrote(writeBigint(f, h))
          [] f.type = "VAL_FLOAT"    -> wrote(writeFloat(f, h))
          [] f.type = "VAL_DOUBLE"   -> wrote(writeDouble(f, h))
          [] f.type = "VAL_TEXT"     -> wrote(writeText(f, h))
          [] f.type = "VAL_JDATE"    -> wrote(writeJdate(f, h))
          [] f.type = "VAL_DATE"     -> wrote(writeDate(f, h, epoch))
          [] f.type = "VAL_DATETIME" -> wrote(writeDatetime(f, h, epoch))
          [] OTHER                   -> [died |-> TRUE, bytes |-> <<>>]

-----------------------------------------------------------------------------
(* The epoch *)

\* Days from 1970-01-01 to the proleptic-Gregorian date y-m-d.
DaysFromCivil(y, m, d) ==
    LET y1  == IF m <= 2 THEN y - 1 ELSE y
        era == y1 \div 400
        yoe == y1 - era * 400
        mp  == IF m > 2 THEN m - 3 ELSE m + 9
        doy == (153 * mp + 2) \div 5 + d - 1
        doe == yoe * 365 + yoe \div 4 - yoe \div 100 + doy
    IN  era * 146097 + doe - 719468

\* <time.h> mktime with tm_isdst = 0, in a zone zone seconds east of UTC
\* that keeps no daylight-saving time.
mktime(tm, zone) ==
    DaysFromCivil(tm.tm_year + 1900, tm.tm_mon + 1, tm.tm_mday) * 86400
        + tm.tm_hour * 3600 + tm.tm_min * 60 + tm.tm_sec - zone

\* static struct tm pqEpochParts: 2000-01-01 00:00:00, local time.
pqEpochParts ==
    [tm_sec |-> 0, tm_min |-> 0, tm_hour |-> 0, tm_mday |-> 1, tm_mon |-> 0,
     tm_year |-> 100, tm_isdst |-> 0]

-----------------------------------------------------------------------------
(* Julian dates.  j2date computes in unsigned int; on the Julian day        *)
(* numbers the specifications draw from (jd >= 0, far below 2^32 / 4) no    *)
(* operation wraps.                                                          *)

\* Mutant: j2date storing the month as struct tm counts it, from 0.
j2date_month0(jd) ==
    LET julian0 == jd + 32044
        quad0   == julian0 \div 146097
        extra   == (julian0 - quad0 * 146097) * 4 + 3
        julian1 == julian0 + 60 + quad0 * 3 + extra \div 146097
        quad1   == julian1 \div 1461
        julian2 == julian1 - quad1 * 1461
        y0      == (julian2 * 4) \div 1461
        julian3 == (IF y0 # 0 THEN (julian2 + 305) % 365
                              ELSE (julian2 + 306) % 366) + 123
        y1      == y0 + quad1 * 4
        quad2   == (julian3 * 2141) \div 65536
    IN  [year  |-> y1 - 4800,
         month |-> (quad2 + 10) % 12,
         day   |-> julian3 - (7834 * quad2) \div 256]

\* j2date(jd, &year, &month, &day): the three values stored.
j2date(jd) ==
    LET julian0 == jd + 32044
        quad0   == julian0 \div 146097
        extra   == (julian0 - quad0 * 146097) * 4 + 3
        julian1 == julian0 + 60 + quad0 * 3 + extra \div 146097
        quad1   == julian1 \div 1461
        julian2 == julian1 - quad1 * 1461
        y0      == (julian2 * 4) \div 1461
        julian3 == (IF y0 # 0 THEN (julian2 + 305) % 365
                              ELSE (julian2 + 306) % 366) + 123
        y1      == y0 + quad1 * 4
        quad2   == (julian3 * 2141) \div 65536
    IN  [year  |-> y1 - 4800,
         month |-> ((quad2 + 10) % 12) + 1,
         day   |-> julian3 - (7834 * quad2) \div 256]

\* Mutant: julian2unixtime without julian += 0.5.
julian2unixtime_noHalf(julian, zone) ==
    LET whole == RatTrunc(julian)
        ymd   == j2date(whole)
        hrs   == RatMul(RatAdd(julian, <<-whole, 1>>), <<24, 1>>)
        hour  == RatTrunc(hrs)
        mins  == RatMul(RatAdd(hrs, <<-hour, 1>>), <<60, 1>>)
        min   == RatTrunc(mins)
        sec   == RatTrunc(RatMul(RatAdd(mins, <<-min, 1>>), <<60, 1>>))
    IN  mktime([tm_sec |-> sec, tm_min |-> min, tm_hour |-> hour,
                tm_mday |-> ymd.day, tm_mon |-> ymd.month - 1,
                tm_year |-> ymd.year - 1900, tm_isdst |-> 0], zone)

\* julian2unixtime(julian, &result): the time_t stored in *result.  The
\* double arithmetic is exact on the values the specifications draw from
\* (day numbers with fractions of a few bits).
julian2unixtime(julian, zone) ==
    LET shifted == RatAdd(julian, <<1, 2>>)
        whole   == RatTrunc(shifted)
        ymd     == j2date(whole)
        hrs     == RatMul(RatAdd(shifted, <<-whole, 1>>), <<24, 1>>)
        hour    == RatTrunc(hrs)
        mins    == RatMul(RatAdd(hrs, <<-hour, 1>>), <<60, 1>>)
        min     == RatTrunc(mins)
        sec     == RatTrunc(RatMul(RatAdd(mins, <<-min, 1>>), <<60, 1>>))
    IN  mktime([tm_sec |-> sec, tm_min |-> min, tm_hour |-> hour,
                tm_mday |-> ymd.day, tm_mon |-> ymd.month - 1,
                tm_year |-> ymd.year - 1900, tm_isdst |-> 0], zone)

\* makeTimeFromJd(field) on a field the assertion accepts: the Field
\* afterwards.
makeTimeFromJd(f, zone) ==
    [f EXCEPT !.type = "VAL_DATETIME",
              !.val.time = julian2unixtime(f.val.c_double, zone)]

-----------------------------------------------------------------------------
(* The format-driven scan.  AUTO_NULL is not defined. *)

\* The digits get_number of strptime reads: blanks are skipped, then at most
\* width digits are taken.
StrptimeNumber(str, width) ==
    LET s1 == SkipSpace(str)
        ds == Digits(s1)
        n  == IF Len(ds) < width THEN Len(ds) ELSE width
    IN  [ok   |-> n > 0,
         val  |-> DecimalValue(SubSeq(ds, 1, n)),
         rest |-> Drop(s1, n)]

\* strptime(str, "%Y-%m-%d", &timeParts): whether it matched, the characters
\* left over and the members of timeParts it set.
strptime(str) ==
    LET y    == StrptimeNumber(str, 4)
        dash1 == y.ok /\ y.rest # <<>> /\ Head(y.rest) = "-"
        mo   == IF dash1 THEN StrptimeNumber(Tail(y.rest), 2)
                ELSE [ok |-> FALSE, val |-> 0, rest |-> <<>>]
        okM  == mo.ok /\ mo.val \in 1..12
        dash2 == okM /\ mo.rest # <<>> /\ Head(mo.rest) = "-"
        d    == IF dash2 THEN StrptimeNumber(Tail(mo.rest), 2)
                ELSE [ok |-> FALSE, val |-> 0, rest |-> <<>>]
        okD  == d.ok /\ d.val \in 1..31
    IN  [res     |-> okD,
         rest    |-> IF okD THEN d.rest ELSE <<>>,
         tm_year |-> y.val - 1900,
         tm_mon  |-> mo.val - 1,
         tm_mday |-> d.val]

\* real_fieldscanf(str, f, type, fieldName, "%Y-%m-%d"): what it leaves.
\* strptime sets the date members of timeParts only; unset holds what the
\* other members, which are never initialized, happen to contain.
real_fieldscanf(str, f, type, unset, zone) ==
    LET typed == [f EXCEPT !.type = type]
        scanned(scan, member) ==
            IF scan.n # 1 THEN Dies("fieldscanf: Can't parse value")
            ELSE Yields([typed EXCEPT !.val[member] = scan.val])
    IN  CASE type = "VAL_NULL" -> Yields(typed)
          [] type = "VAL_BOOL" -> Dies("Can't fieldscanf bools")
          [] type = "VAL_CHAR" ->
                Yields([typed EXCEPT !.val.c_int8 =
                            IF str = <<>> THEN 0 ELSE Ord(Head(str))])
          [] type = "VAL_SHORT"  -> scanned(sscanf_d(str), "c_int16")
          [] type = "VAL_INT"    -> scanned(sscanf_d(str), "c_int32")
          [] type = "VAL_FLOAT"  -> scanned(sscanf_f(str), "c_float")
          [] type = "VAL_DOUBLE" -> scanned(sscanf_f(str), "c_double")
          [] type = "VAL_TEXT"   -> Yields([typed EXCEPT !.val.c_ptr = str])
          [] type \in {"VAL_DATETIME", "VAL_DATE"} ->
                LET parts == strptime(str)
                IN  IF ~parts.res \/ parts.rest # <<>>
                    THEN Dies("fieldscanf: Can't parse value")
                    ELSE Yields([typed EXCEPT !.val.time =
                             mktime([tm_sec |-> unset.tm_sec,
                                     tm_min |-> unset.tm_min,
                                     tm_hour |-> unset.tm_hour,
                                     tm_mday |-> parts.tm_mday,
                                     tm_mon |-> parts.tm_mon,
                                     tm_year |-> parts.tm_year,
                                     tm_isdst |-> 0], zone)])
          [] type = "VAL_JDATE"  -> scanned(sscanf_f(str), "c_float")
          [] OTHER -> Yields(typed)

-----------------------------------------------------------------------------
(* The platforms and the sample values the specifications draw from *)

ByteOrders == {"LE", "BE"}

TimeZones == {0, 3600}

WithVal(member, v) == [ValZero EXCEPT ![member] = v]

IntSamples == {0, 1, -1, -2, 258, 16909060, 2147483647, -2147483647 - 1}

ShortSamples == {0, 1, -1, 258, 32767, -32768}

\* Exactly representable values and values the C type rounds.
RealSamples ==
    {<<0, 1>>, <<1, 1>>, <<-1, 1>>, <<3, 2>>, <<10, 1>>, <<6, 5>>, <<-1, 3>>,
     <<1, 3600>>}

TextSamples == {<<>>, <<"x">>, <<"1", "x">>, <<"1", " ", "2">>}

\* Julian years (VAL_JDATE keeps them in c_float).
JdateSamples ==
    {<<2000, 1>>, <<2001, 1>>, <<4001, 2>>, <<8003, 4>>, <<7965, 4>>,
     <<1999, 1>>}

\* time_t values around 2000-01-01 00:00:00 UTC (946684800).
TimeSamples ==
    {946684800 + k : k \in {0, 1, -1, 3599, 3600, 86399, 86400, 90000,
                            -3601, -86400, -86401, 259205}}

FieldSamples ==
    {Field("VAL_NULL", 0, ValZero), Field("VAL_NULL", 0, WithVal("c_int32", 7)),
     Field(VAL_OTHER, 0, ValZero)}
    \cup {Field("VAL_BOOL", 0, WithVal("c_int8", v)) : v \in {0, 1}}
    \cup {Field("VAL_CHAR", 0, WithVal("c_int8", v)) : v \in {49, 120, -1}}
    \cup {Field("VAL_SHORT", 0, WithVal("c_int16", v)) : v \in ShortSamples}
    \cup {Field("VAL_INT", 0, WithVal("c_int32", v)) : v \in IntSamples}
    \cup {Field("VAL_BIGINT", 0, WithVal("c_int64", v)) : v \in IntSamples}
    \cup {Field("VAL_FLOAT", 0, WithVal("c_float", v)) : v \in RealSamples}
    \cup {Field("VAL_DOUBLE", 0, WithVal("c_double", v)) : v \in RealSamples}
    \cup {Field("VAL_TEXT", n, WithVal("c_ptr", v)) :
            n \in {0, 3}, v \in TextSamples}
    \cup {Field("VAL_JDATE", 0, WithVal("c_float", v)) : v \in JdateSamples}
    \cup {Field("VAL_DATE", 0, WithVal("time", v)) : v \in TimeSamples}
    \cup {Field("VAL_DATETIME", 0, WithVal("time", v)) : v \in TimeSamples}

-----------------------------------------------------------------------------
(* Process termination *)

\* Mutant: die ending the process with exit(0).
die_exit0(msg) ==
    /\ err' = Append(err, <<"importbooster", msg>>)
    /\ exitStatus' = 0
    /\ pc' = "exited"

\* die(format, ...): one diagnostic line on stderr, exit(1).
die(msg) ==
    /\ err' = Append(err, <<"importbooster", msg>>)
    /\ exitStatus' = 1
    /\ pc' = "exited"

\* The driver's variables in a specification of a single call.
NoDriver ==
    /\ argc = 1
    /\ openOk = TRUE
    /\ inF = [records |-> <<>>, pos |-> 0]
    /\ inputLine = <<>>
    /\ tuple = <<>>
    /\ curField = 0
    /\ lncount = 0

-----------------------------------------------------------------------------
(* SpecEnc: writeField called once on a Field *)

InitEnc ==
    /\ host \in ByteOrders
    /\ tz \in TimeZones
    /\ PqEpoch = mktime(pqEpochParts, tz)
    /\ pc = "call"
    /\ call = [fn |-> "writeField"]
    /\ field \in FieldSamples
    /\ out = <<>>
    /\ err = <<>>
    /\ exitStatus = -1
    /\ NoDriver

EncWriteField ==
    /\ pc = "call"
    /\ call.fn = "writeField"
    /\ LET w == writeField(field, host, PqEpoch)
       IN  IF w.died
           THEN die("Unknown type code") /\ out' = out
           ELSE /\ out' = out \o w.bytes
                /\ pc' = "returned"
                /\ UNCHANGED <<err, exitStatus>>
    /\ UNCHANGED <<host, tz, PqEpoch, call, field, driverVars>>

NextEnc == EncWriteField

SpecEnc == InitEnc /\ [][NextEnc]_vars

-----------------------------------------------------------------------------
(* Claims about the encoding of one field (SpecEnc) *)

Returned == pc = "returned" /\ call.fn = "writeField"

Prefix == SubSeq(out, 1, 4)
Payload == SubSeq(out, 5, Len(out))

\* The payload sizes the wire format gives each tag.
WireSize(f) ==
    CASE f.type \in {"VAL_BOOL", "VAL_CHAR"} -> 1
      [] f.type = "VAL_SHORT" -> 2
      [] f.type \in {"VAL_INT", "VAL_FLOAT", "VAL_JDATE", "VAL_DATE"} -> 4
      [] f.type \in {"VAL_BIGINT", "VAL_DOUBLE", "VAL_DATETIME"} -> 8
      [] f.type = "VAL_TEXT" -> Len(f.val.c_ptr)

\* C3: writeField emits a 4-byte big-endian signed length prefix followed
\* by exactly that many payload bytes: 1 for Bool and Char, 2 for Short, 4
\* for Int, Float, JulianDate and Date, 8 for BigInt, Double and DateTime,
\* the byte count of the stored string (not Field.length) for Text, with no
\* terminator; a Null field is exactly the 4 bytes of big-endian -1.
C3_LengthPrefixAndPayloadSize ==
    Returned =>
        IF field.type = "VAL_NULL"
        THEN out = <<255, 255, 255, 255>>
        ELSE /\ Len(out) >= 4
             /\ SignedOf(Prefix) = WireSize(field)
             /\ Len(Payload) = WireSize(field)
             /\ field.type = "VAL_TEXT" =>
                    /\ Len(Payload) = Len(field.val.c_ptr)
                    /\ \A i \in 1..Len(Payload) :
                           Payload[i] = Ord(field.val.c_ptr[i])

\* A Text field whose declared length differs from its string's length has
\* been written on a little-endian host.
C3_Witness ==
    /\ Returned
    /\ host = "LE"
    /\ field.type = "VAL_TEXT"
    /\ field.length # Len(field.val.c_ptr)
    /\ Len(field.val.c_ptr) = 2
    /\ out = <<0, 0, 0, 2, 49, 120>>

\* The whole number of days the code computes for a Date or JulianDate
\* field, characterised without the code's arithmetic: d is the day count of
\* x = num/den when it satisfies the predicate.
IsTruncOf(d, num, den) ==
    /\ Abs(d) * den <= Abs(num)
    /\ Abs(num) < (Abs(d) + 1) * den
    /\ (d > 0 => num > 0) /\ (d < 0 => num < 0)

\* d = floor(num/den + 1/2)
IsRoundOf(d, num, den) ==
    /\ 2 * den * d <= 2 * num + den
    /\ 2 * num + den < 2 * den * (d + 1)

\* (c_float - 2000) * 365.25 as the fraction JdNum / JdDen.
JdNum(f) == (f.val.c_float[1] - 2000 * f.val.c_float[2]) * 1461
JdDen(f) == 4 * f.val.c_float[2]

\* C5: on little-endian and big-endian hosts alike, every 4-byte length
\* prefix and the payload of every Short, Int, Date and JulianDate field is
\* in big-endian byte order: read most significant byte first, they give the
\* length and the field's integer.
C5_BigEndianPrefixAndSmallIntegers ==
    Returned =>
        /\ Prefix = Numeral(IF field.type = "VAL_NULL" THEN -1
                            ELSE WireSize(field), 4)
        /\ field.type = "VAL_SHORT" => SignedOf(Payload) = field.val.c_int16
        /\ field.type = "VAL_INT" => SignedOf(Payload) = field.val.c_int32
        /\ field.type = "VAL_DATE" =>
               IsTruncOf(SignedOf(Payload), field.val.time - PqEpoch, 86400)
        /\ field.type = "VAL_JDATE" =>
               IsRoundOf(SignedOf(Payload), JdNum(field), JdDen(field))

\* An Int whose four bytes differ has been written on a little-endian host.
C5_Witness ==
    /\ Returned
    /\ host = "LE"
    /\ field.type = "VAL_INT"
    /\ field.val.c_int32 = 16909060
    /\ out = <<0, 0, 0, 4, 1, 2, 3, 4>>

\* The big-endian (network order) numeral of the value of a wide field.
NetworkNumeral(f) ==
    CASE f.type = "VAL_BIGINT" -> Numeral(f.val.c_int64, 8)
      [] f.type = "VAL_FLOAT" -> FloatNumeral(f.val.c_float)
      [] f.type = "VAL_DOUBLE" -> DoubleNumeral(f.val.c_double)
      [] f.type = "VAL_DATETIME" ->
             MulNumeral(Numeral(f.val.time - PqEpoch, 8), 1000000, 0)

WideTags == {"VAL_BIGINT", "VAL_FLOAT", "VAL_DOUBLE", "VAL_DATETIME"}

\* C6 as stated: on a little-endian host the payload bytes of BigInt, Float,
\* Double and DateTime fields are in the order opposite to network
\* (big-endian) order of the value; on a big-endian host nothing is
\* reversed.
C6_Original_WidePayloadOppositeToNetworkOrder ==
    Returned /\ field.type \in WideTags =>
        IF host = "LE" THEN Payload = Reverse(NetworkNumeral(field))
        ELSE Payload = ObjectBytes(NetworkNumeral(field), host)

\* C6 amended: on a little-endian host the payload bytes of BigInt, Float,
\* Double and DateTime fields are the value's bytes in memory reversed, which
\* is network (big-endian) order, the order of the length prefixes and of the
\* Short/Int/Date/JulianDate payloads; on a big-endian host the bytes are
\* written as they lie in memory, not reversed, which is network order too.
C6_WidePayloadIsMemoryReversedOnLittleEndian ==
    Returned /\ field.type \in WideTags =>
        /\ Payload = NetworkNumeral(field)
        /\ host = "LE" =>
               Payload = Reverse(ObjectBytes(NetworkNumeral(field), host))
        /\ host = "BE" => Payload = ObjectBytes(NetworkNumeral(field), host)

\* A BigInt whose bytes differ has been written on a little-endian host,
\* most significant byte first.
C6_Witness ==
    /\ Returned
    /\ host = "LE"
    /\ field.type = "VAL_BIGINT"
    /\ field.val.c_int64 = 16909060
    /\ out = <<0, 0, 0, 8, 0, 0, 0, 0, 1, 2, 3, 4>>

-----------------------------------------------------------------------------
(* A reference reader of the wire format, for the round trip *)

ReaderChars == {" ", "\t", "\n", "-", ".", "x", "N",
                "0", "1", "2", "3", "4", "5", "6", "7", "8", "9"}

Chr(b) == CHOOSE c \in ReaderChars : Ord(c) = b

\* The two's complement of a numeral.
Negated(bs) == MulNumeral([i \in 1..Len(bs) |-> 255 - bs[i]], 1, 1)

\* Quotient of a non-negative numeral by k (k < 2^23), as a number; the
\* quotient is within the 32-bit range.
RECURSIVE DivNumeral(_, _, _, _)
DivNumeral(bs, k, quot, rem) ==
    IF bs = <<>> THEN [quot |-> quot, rem |-> rem]
    ELSE LET t == rem * 256 + Head(bs)
         IN  DivNumeral(Tail(bs), k, quot * 256 + t \div k, t % k)

\* An 8-byte big-endian count of microseconds as whole seconds (and the
\* microseconds left over).
ReadMicros(bs) ==
    IF bs[1] >= 128
    THEN LET d == DivNumeral(Negated(bs), 1000000, 0, 0)
         IN  [secs |-> -d.quot, usecs |-> -d.rem]
    ELSE LET d == DivNumeral(bs, 1000000, 0, 0)
         IN  [secs |-> d.quot, usecs |-> d.rem]

\* What a reader reports: the member of the value that the tag names.
Reading(tag, isnull, num, real, image, text) ==
    [tag |-> tag, isnull |-> isnull, num |-> num, real |-> real,
     image |-> image, text |-> text]

\* The reader, told the column's tag and the epoch: a big-endian length,
\* -1 for NULL, then the payload: big-endian integers, IEEE-754 images most
\* significant byte first, the text's bytes, days since the epoch for dates
\* (a Julian year is rebuilt as 2000 + days / 365.25) and microseconds since
\* the epoch for timestamps.
ReadField(tag, bytes, epoch) ==
    LET L == SignedOf(SubSeq(bytes, 1, 4))
        p == SubSeq(bytes, 5, 4 + L)
    IN  IF L = -1 THEN Reading("VAL_NULL", TRUE, 0, <<0, 1>>, <<>>, <<>>)
        ELSE CASE tag \in {"VAL_BOOL", "VAL_CHAR", "VAL_SHORT", "VAL_INT"} ->
                    Reading(tag, FALSE, SignedOf(p), <<0, 1>>, <<>>, <<>>)
               [] tag = "VAL_BIGINT" ->
                    \* within the model's range the upper half is the sign
                    Reading(tag, FALSE, SignedOf(SubSeq(p, 5, 8)), <<0, 1>>,
                            SubSeq(p, 1, 4), <<>>)
               [] tag \in {"VAL_FLOAT", "VAL_DOUBLE"} ->
                    Reading(tag, FALSE, 0, <<0, 1>>, p, <<>>)
               [] tag = "VAL_TEXT" ->
                    Reading(tag, FALSE, 0, <<0, 1>>, <<>>,
                            [i \in 1..L |-> Chr(p[i])])
               [] tag = "VAL_JDATE" ->
                    Reading(tag, FALSE, 0,
                            Rat(2000 * 1461 + 4 * SignedOf(p), 1461), <<>>, <<>>)
               [] tag = "VAL_DATE" ->
                    Reading(tag, FALSE, epoch + 86400 * SignedOf(p), <<0, 1>>,
                            <<>>, <<>>)
               [] tag = "VAL_DATETIME" ->
                    Reading(tag, FALSE, epoch + ReadMicros(p).secs, <<0, 1>>,
                            IF ReadMicros(p).usecs = 0 THEN <<>> ELSE <<1>>, <<>>)

\* The value a Field holds, as a reading.
Held(f) ==
    CASE f.type = "VAL_NULL" -> Reading("VAL_NULL", TRUE, 0, <<0, 1>>, <<>>, <<>>)
      [] f.type \in {"VAL_BOOL", "VAL_CHAR"} ->
             Reading(f.type, FALSE, f.val.c_int8, <<0, 1>>, <<>>, <<>>)
      [] f.type = "VAL_SHORT" ->
             Reading(f.type, FALSE, f.val.c_int16, <<0, 1>>, <<>>, <<>>)
      [] f.type = "VAL_INT" ->
             Reading(f.type, FALSE, f.val.c_int32, <<0, 1>>, <<>>, <<>>)
      [] f.type = "VAL_BIGINT" ->
             Reading(f.type, FALSE, f.val.c_int64, <<0, 1>>,
                     IF f.val.c_int64 < 0 THEN <<255, 255, 255, 255>>
                     ELSE <<0, 0, 0, 0>>, <<>>)
      [] f.type = "VAL_FLOAT" ->
             Reading(f.type, FALSE, 0, <<0, 1>>, FloatNumeral(f.val.c_float), <<>>)
      [] f.type = "VAL_DOUBLE" ->
             Reading(f.type, FALSE, 0, <<0, 1>>, DoubleNumeral(f.val.c_double), <<>>)
      [] f.type = "VAL_TEXT" ->
             Reading(f.type, FALSE, 0, <<0, 1>>, <<>>, f.val.c_ptr)
      [] f.type = "VAL_JDATE" ->
             Reading(f.type, FALSE, 0, f.val.c_float, <<>>, <<>>)
      [] f.type \in {"VAL_DATE", "VAL_DATETIME"} ->
             Reading(f.type, FALSE, f.val.time, <<0, 1>>, <<>>, <<>>)

\* C4 as stated: for every tag, decoding the bytes writeField produced
\* recovers the field's value exactly.
C4_Original_RoundTripEveryTag ==
    Returned => ReadField(field.type, out, PqEpoch) = Held(field)

DayTags == {"VAL_JDATE", "VAL_DATE"}

\* C4 amended: for every tag except JulianDate and Date, decoding the bytes
\* writeField produced recovers the field's value exactly; for JulianDate
\* and Date the bytes hold only a whole number of days since the epoch
\* (rounded for a Julian year, truncated for an instant), which is all the
\* reader recovers.
C4_RoundTripExceptDayCounts ==
    Returned =>
        /\ field.type \notin DayTags =>
               ReadField(field.type, out, PqEpoch) = Held(field)
        /\ field.type = "VAL_JDATE" =>
               IsRoundOf(SignedOf(Payload), JdNum(field), JdDen(field))
        /\ field.type = "VAL_DATE" =>
               IsTruncOf(SignedOf(Payload), field.val.time - PqEpoch, 86400)

\* A Double that C rounds and a timestamp before the epoch have been written
\* and read back on a little-endian host.
C4_Witness ==
    /\ Returned
    /\ host = "LE"
    /\ \/ /\ field.type = "VAL_DOUBLE"
          /\ field.val.c_double = <<6, 5>>
          /\ ReadField("VAL_DOUBLE", out, PqEpoch).image =
                 <<63, 243, 51, 51, 51, 51, 51, 51>>
       \/ /\ field.type = "VAL_DATETIME"
          /\ field.val.time = PqEpoch - 1
          /\ ReadField("VAL_DATETIME", out, PqEpoch).num = field.val.time

-----------------------------------------------------------------------------
(* SpecParse: one parsing primitive called once on a buffer *)

\* The longest buffer and the largest start offset the calls are drawn from.
MaxSrcLen == 3
MaxStart == 1

ParseAlphabet == {" ", "1", "x", "-", ".", NUL}

SrcSamples ==
    UNION {[1..k -> ParseAlphabet] : k \in 0..MaxSrcLen}
    \cup {<<"1", "2", "x", "3">>, <<" ", "4", "2", " ", " ">>,
          <<"-", "1", ".", "5", "\t">>}

MagicSamples == {<<"x">>, <<"-", "1">>}

NumericParsers ==
    {"parseInt", "parseBigint", "parseFloat", "parseDouble",
     "parseFloatWithMagicNULL"}

Call(fn, src, start, len, magicVal) ==
    [fn |-> fn, src |-> src, start |-> start, len |-> len, magicVal |-> magicVal]

\* The calls the specification draws from: every primitive on every sample
\* buffer, the magic-NULL ones with every sample sentinel.
IsParseCall(c) ==
    \E src \in SrcSamples, start \in 0..MaxStart :
        \/ \E fn \in {"parseInt", "parseBigint", "parseFloat", "parseDouble",
                       "parseString"}, len \in 0..(MaxSrcLen + 2) :
               c = Call(fn, src, start, len, <<>>)
        \/ \E fn \in {"parseFloatWithMagicNULL", "parseStringWithMagicNULL"},
               len \in 0..(MaxSrcLen + 2), magicVal \in MagicSamples :
               c = Call(fn, src, start, len, magicVal)
        \/ \E fn \in {"parseBlankBoolean", "parseChar"} :
               c = Call(fn, src, start, 0, <<>>)

\* The Field of the previous row, which the primitive overwrites.
StaleField == Field("VAL_DOUBLE", 0, WithVal("c_double", <<3, 2>>))

InitParse ==
    /\ host \in {"LE"}
    /\ tz = 0
    /\ PqEpoch = mktime(pqEpochParts, tz)
    /\ pc = "call"
    /\ IsParseCall(call)
    /\ call.start <= Len(call.src)
    /\ call.len <= Len(call.src) + 2
    /\ field = StaleField
    /\ out = <<>>
    /\ err = <<>>
    /\ exitStatus = -1
    /\ NoDriver

\* The call of primitive fn, which leaves r.
Primitive(fn, r) ==
    /\ pc = "call"
    /\ call.fn = fn
    /\ IF r.died
       THEN die(r.msg) /\ field' = field
       ELSE /\ field' = r.field
            /\ pc' = "returned"
            /\ UNCHANGED <<err, exitStatus>>
    /\ UNCHANGED <<host, tz, PqEpoch, call, out, driverVars>>

ParseFloatWithMagicNULL ==
    Primitive("parseFloatWithMagicNULL",
              parseFloatWithMagicNULL(call.src, field, call.start, call.len,
                                      call.magicVal))

ParseFloat ==
    Primitive("parseFloat", parseFloat(call.src, field, call.start, call.len))

ParseDouble ==
    Primitive("parseDouble", parseDouble(call.src, field, call.start, call.len))

ParseBigint ==
    Primitive("parseBigint", parseBigint(call.src, field, call.start, call.len))

ParseInt ==
    Primitive("parseInt", parseInt(call.src, field, call.start, call.len))

ParseBlankBoolean ==
    Primitive("parseBlankBoolean", parseBlankBoolean(call.src, field, call.start))

ParseString ==
    Primitive("parseString", parseString(call.src, field, call.start, call.len))

ParseStringWithMagicNULL ==
    Primitive("parseStringWithMagicNULL",
              parseStringWithMagicNULL(call.src, field, call.start, call.len,
                                       call.magicVal))

ParseChar ==
    Primitive("parseChar", parseChar(call.src, field, call.start))

NextParse ==
    \/ ParseFloatWithMagicNULL
    \/ ParseFloat
    \/ ParseDouble
    \/ ParseBigint
    \/ ParseInt
    \/ ParseBlankBoolean
    \/ ParseString
    \/ ParseStringWithMagicNULL
    \/ ParseChar

SpecParse == InitParse /\ [][NextParse]_vars

-----------------------------------------------------------------------------
(* Claims about the parsing primitives (SpecParse) *)

\* The call has been made: it returned or the process died in it.
Called == pc \in {"returned", "exited"}

\* The substring start, len selects, and the same trimmed.
Extracted == strncpy(call.src, call.start, call.len)
Trimmed == copyString(call.src, call.start, call.len)

Blank(str) == \A i \in 1..Len(str) : str[i] \in {" ", "\t", "\n"}

\* C7: for each numeric parser, whenever the extracted substring is empty or
\* consists only of whitespace, the result is a Field with tag Null and the
\* process does not terminate.
C7_BlankNumericIsNull ==
    Called /\ call.fn \in NumericParsers /\ Blank(Extracted) =>
        /\ pc = "returned"
        /\ exitStatus = -1
        /\ err = <<>>
        /\ field.type = "VAL_NULL"

\* parseInt has returned Null for a run of blanks, the stale Double gone.
C7_Witness ==
    /\ pc = "returned"
    /\ call.fn = "parseInt"
    /\ Extracted = <<" ", " ", " ">>
    /\ field.type = "VAL_NULL"

\* A numeric literal of an integer type: an optional sign and digits.
IsIntLiteral(str) ==
    LET ds == IF str # <<>> /\ Head(str) = "-" THEN Tail(str) ELSE str
    IN  ds # <<>> /\ \A i \in 1..Len(ds) : isdigit(ds[i])

\* A numeric literal of a floating type: an optional sign, digits and at
\* most one point, with a digit somewhere.
IsFloatLiteral(str) ==
    LET ds == IF str # <<>> /\ Head(str) = "-" THEN Tail(str) ELSE str
    IN  /\ \E i \in 1..Len(ds) : isdigit(ds[i])
        /\ \A i \in 1..Len(ds) : isdigit(ds[i]) \/ ds[i] = "."
        /\ Cardinality({i \in 1..Len(ds) : ds[i] = "."}) <= 1

IsLiteralFor(fn, str) ==
    IF fn \in {"parseInt", "parseBigint"} THEN IsIntLiteral(str)
    ELSE IsFloatLiteral(str)

\* C8: for each numeric parser, whenever the trimmed substring has
\* non-whitespace content that is not a numeric literal of the target type,
\* the process terminates with a diagnostic and a nonzero exit status and no
\* Field is produced.  (A text equal to the sentinel of the magic-NULL
\* parser is C9's case and is left out.)
C8_NonNumericIsFatal ==
    /\ Called
    /\ call.fn \in NumericParsers
    /\ Trimmed # <<>>
    /\ ~IsLiteralFor(call.fn, Trimmed)
    /\ ~(call.fn = "parseFloatWithMagicNULL" /\ Trimmed = call.magicVal)
    => /\ pc = "exited"
       /\ exitStatus = 1
       /\ err # <<>>
       /\ field = StaleField

\* C9: a magic-NULL parser yields Null whenever the trimmed substring equals
\* the sentinel: parseFloatWithMagicNULL compares before any numeric parse,
\* so a match is never fatal even when the sentinel is no number;
\* parseStringWithMagicNULL yields Null on a match and a Text field
\* otherwise.
C9_MagicNull ==
    /\ Called /\ call.fn = "parseFloatWithMagicNULL"
           /\ Trimmed = call.magicVal =>
           pc = "returned" /\ exitStatus = -1 /\ field.type = "VAL_NULL"
    /\ Called /\ call.fn = "parseStringWithMagicNULL" =>
           /\ pc = "returned"
           /\ exitStatus = -1
           /\ Trimmed = call.magicVal => field.type = "VAL_NULL"
           /\ Trimmed # call.magicVal =>
                  field.type = "VAL_TEXT" /\ field.val.c_ptr = Trimmed

\* parseFloatWithMagicNULL has met its sentinel "x", which is no number,
\* between blanks.
C9_Witness ==
    /\ pc = "returned"
    /\ call.fn = "parseFloatWithMagicNULL"
    /\ call.magicVal = <<"x">>
    /\ Extracted = <<" ", "x", " ">>
    /\ field.type = "VAL_NULL"

-----------------------------------------------------------------------------
(* SpecXform: a value transform called once on a Field *)

\* Fields of every tag, the numeric ones with values the arithmetic is
\* exact on.
XformFields ==
    {f \in FieldSamples :
        f.type \notin {"VAL_FLOAT", "VAL_DOUBLE", "VAL_INT", "VAL_BIGINT"}}
    \cup {Field("VAL_FLOAT", 0, WithVal("c_float", v)) :
             v \in {<<0, 1>>, <<1, 1>>, <<-3, 2>>, <<10, 1>>}}
    \cup {Field("VAL_DOUBLE", 0, WithVal("c_double", v)) :
             v \in {<<0, 1>>, <<1, 1>>, <<-3, 2>>, <<10, 1>>}}
    \cup {Field("VAL_INT", 0, WithVal("c_int32", v)) : v \in {0, 1, 3, -3, 7200}}
    \cup {Field("VAL_BIGINT", 0, WithVal("c_int64", v)) : v \in {0, 3, -3}}

OffsetSamples == {<<0, 1>>, <<1, 1>>, <<-1, 2>>, <<360, 1>>}

FactorSamples == {<<1, 1>>, <<1, 2>>, <<-1, 4>>, <<2, 1>>, <<3, 2>>}

InitXform ==
    /\ host \in {"LE"}
    /\ tz = 0
    /\ PqEpoch = mktime(pqEpochParts, tz)
    /\ pc = "call"
    /\ field \in XformFields
    /\ \E offset \in OffsetSamples, factor \in FactorSamples :
           call = [fn |-> "linearTransform", arg |-> field,
                   offset |-> offset, factor |-> factor]
    /\ out = <<>>
    /\ err = <<>>
    /\ exitStatus = -1
    /\ NoDriver

LinearTransform ==
    /\ pc = "call"
    /\ call.fn = "linearTransform"
    /\ field' = linearTransform(field, call.offset, call.factor)
    /\ pc' = "returned"
    /\ UNCHANGED <<host, tz, PqEpoch, call, out, err, exitStatus, driverVars>>

NextXform == LinearTransform

SpecXform == InitXform /\ [][NextXform]_vars

-----------------------------------------------------------------------------
(* Claims about linearTransform (SpecXform) *)

Transformed == pc = "returned" /\ call.fn = "linearTransform"

\* offset + value*factor for the call made, as a fraction.
Target(value) == RatAdd(call.offset, RatMul(value, call.factor))

\* Tag and length are kept, Float and Double values are replaced by
\* offset + value*factor, and a field of any other tag but Int is as it was.
FrameOfLinearTransform ==
    /\ field.type = call.arg.type
    /\ field.length = call.arg.length
    /\ call.arg.type = "VAL_FLOAT" =>
           field.val = [call.arg.val EXCEPT
                            !.c_float = Target(call.arg.val.c_float)]
    /\ call.arg.type = "VAL_DOUBLE" =>
           field.val = [call.arg.val EXCEPT
                            !.c_double = Target(call.arg.val.c_double)]
    /\ call.arg.type \notin {"VAL_FLOAT", "VAL_DOUBLE", "VAL_INT"} =>
           field = call.arg
    /\ call.arg.type = "VAL_INT" =>
           \A mb \in DOMAIN field.val :
               mb # "c_int32" => field.val[mb] = call.arg.val[mb]

\* C10 as stated: the value is replaced by offset + value*factor when the
\* tag is Float, Double or Int, every other field is unchanged and no tag
\* changes.
C10_Original_LinearTransform ==
    Transformed =>
        /\ FrameOfLinearTransform
        /\ call.arg.type = "VAL_INT" =>
               <<field.val.c_int32, 1>> = Target(<<call.arg.val.c_int32, 1>>)

\* C10 amended: as stated, except that for Int the value is replaced by
\* offset + value*factor with its fraction dropped (truncated toward zero),
\* the conversion the assignment to the 32-bit member makes.
C10_LinearTransformTruncatesInt ==
    Transformed =>
        /\ FrameOfLinearTransform
        /\ call.arg.type = "VAL_INT" =>
               IsTruncOf(field.val.c_int32,
                         Target(<<call.arg.val.c_int32, 1>>)[1],
                         Target(<<call.arg.val.c_int32, 1>>)[2])

\* An Int has been halved to a value with a fraction, which is dropped.
C10_Witness ==
    /\ Transformed
    /\ call.arg.type = "VAL_INT"
    /\ call.arg.val.c_int32 = -3
    /\ call.offset = <<0, 1>>
    /\ call.factor = <<1, 2>>
    /\ field.val.c_int32 = -1

-----------------------------------------------------------------------------
(* Spec: the dump driver, main and createDumpfile *)

USAGE == "Usage: don't."

\* The number of columns of the catalog, set by the generated code.
QUERY_N_PARS == 2

\* The most records an input holds.
MaxRecords == 2

\* The null pointer getTuple returns for a line it rejects.
NULL == <<>>

DriverFields ==
    {Field("VAL_SHORT", 0, WithVal("c_int16", 258)),
     Field("VAL_NULL", 0, ValZero),
     Field(VAL_OTHER, 0, ValZero)}

\* An input record, by what the catalog's getTuple makes of it: a tuple of
\* QUERY_N_PARS Fields, a rejection, or a fatal diagnostic of a parser.
Records ==
    {[kind |-> "rejected", fields |-> NULL], [kind |-> "fatal", fields |-> NULL]}
    \cup {[kind |-> "tuple", fields |-> fs] :
             fs \in [1..QUERY_N_PARS -> DriverFields]}

Inputs == UNION {[1..n -> Records] : n \in 0..MaxRecords}

\* Field *getTuple(char *inputLine), the catalog's extraction function.
getTuple(line) == line.fields

\* fgets(inputLine, INPUT_LINE_MAX, inF): the next record, or NULL at the end
\* of the input.
fgets(file) ==
    IF file.pos < Len(file.records)
    THEN [line |-> file.records[file.pos + 1],
          file |-> [file EXCEPT !.pos = file.pos + 1], eof |-> FALSE]
    ELSE [line |-> NULL, file |-> file, eof |-> TRUE]

\* Mutant: writeTuple's loop stopping one field early.
writeTupleContinues_short(index, numFields) == index < numFields - 1

\* The condition of writeTuple's loop, curField-fields<numFields.
writeTupleContinues(index, numFields) == index < numFields

Init ==
    /\ host \in ByteOrders
    /\ tz = 0
    /\ PqEpoch = 0
    /\ pc = "main"
    /\ call = [fn |-> "main"]
    /\ field = Field("VAL_NULL", 0, ValZero)
    /\ argc \in {1, 2, 3}
    /\ openOk \in BOOLEAN
    /\ argc # 2 => openOk
    /\ inF \in [records : Inputs, pos : {0}]
    /\ inputLine = NULL
    /\ tuple = NULL
    /\ curField = 0
    /\ lncount = 0
    /\ out = <<>>
    /\ err = <<>>
    /\ exitStatus = -1

\* main: PqEpoch = mktime(&pqEpochParts); createDumpfile(argc, argv);
Main ==
    /\ pc = "main"
    /\ PqEpoch' = mktime(pqEpochParts, tz)
    /\ pc' = "createDumpfile"
    /\ UNCHANGED <<host, tz, call, field, out, err, exitStatus, driverVars>>

\* if (argc>2) die(USAGE);
CheckArgsDie ==
    /\ pc = "createDumpfile"
    /\ argc > 2
    /\ die(USAGE)
    /\ UNCHANGED <<host, tz, PqEpoch, call, field, out, driverVars>>

\* if (argc==2) { if (!(inF = fopen(argv[1], "r"))) die(strerror(errno)); }
OpenInputDie ==
    /\ pc = "createDumpfile"
    /\ argc = 2
    /\ ~openOk
    /\ die("strerror(errno)")
    /\ UNCHANGED <<host, tz, PqEpoch, call, field, out, driverVars>>

\* The input is open, the named file or stdin.
OpenInput ==
    /\ pc = "createDumpfile"
    /\ argc <= 2
    /\ argc = 2 => openOk
    /\ pc' = "writeHeader"
    /\ UNCHANGED <<host, tz, PqEpoch, call, field, out, err, exitStatus,
                   driverVars>>

WriteHeader ==
    /\ pc = "writeHeader"
    /\ out' = out \o writeHeader(host)
    /\ pc' = "fgets"
    /\ UNCHANGED <<host, tz, PqEpoch, call, field, err, exitStatus, driverVars>>

\* while (fgets(inputLine, INPUT_LINE_MAX, inF)) ...
ReadRecord ==
    /\ pc = "fgets"
    /\ LET got == fgets(inF)
       IN  /\ ~got.eof
           /\ inputLine' = got.line
           /\ inF' = got.file
    /\ pc' = "getTuple"
    /\ UNCHANGED <<host, tz, PqEpoch, call, field, argc, openOk, tuple,
                   curField, lncount, out, err, exitStatus>>

\* A parser called by getTuple ends the process.
GetTupleDie ==
    /\ pc = "getTuple"
    /\ inputLine.kind = "fatal"
    /\ die("Invalid literal")
    /\ UNCHANGED <<host, tz, PqEpoch, call, field, out, driverVars>>

\* tuple = getTuple(inputLine); if (!tuple) die("Bad input line: '%s'", ...)
GetTuple ==
    /\ pc = "getTuple"
    /\ inputLine.kind # "fatal"
    /\ tuple' = getTuple(inputLine)
    /\ IF tuple' = NULL
       THEN die("Bad input line")
       ELSE pc' = "writeTuple" /\ UNCHANGED <<err, exitStatus>>
    /\ UNCHANGED <<host, tz, PqEpoch, call, field, argc, openOk, inF,
                   inputLine, curField, lncount, out>>

\* writeTuple: int16_t fieldCount=htons(numFields); DATA_OUT(&fieldCount, 2)
WriteTupleCount ==
    /\ pc = "writeTuple"
    /\ LET fieldCount == htons(Numeral(QUERY_N_PARS, 2), host)
       IN  out' = out \o DATA_OUT(fieldCount, host)
    /\ curField' = 0
    /\ pc' = "writeFields"
    /\ UNCHANGED <<host, tz, PqEpoch, call, field, argc, openOk, inF,
                   inputLine, tuple, lncount, err, exitStatus>>

\* Mutant: a loop body that takes the row's field count back out of the output
\* when writeField dies.
WriteTupleField_unwritesCount ==
    /\ pc = "writeFields"
    /\ writeTupleContinues(curField, QUERY_N_PARS)
    /\ LET w == writeField(tuple[curField + 1], host, PqEpoch)
       IN  IF w.died
           THEN /\ die("Unknown type code")
                /\ out' = SubSeq(out, 1, Len(out) - 2)
                /\ UNCHANGED curField
           ELSE /\ out' = out \o w.bytes
                /\ curField' = curField + 1
                /\ UNCHANGED <<pc, err, exitStatus>>
    /\ UNCHANGED <<host, tz, PqEpoch, call, field, argc, openOk, inF,
                   inputLine, tuple, lncount>>

\* writeTuple's loop body: writeField(curField, destination); curField++
WriteTupleField ==
    /\ pc = "writeFields"
    /\ writeTupleContinues(curField, QUERY_N_PARS)
    /\ LET w == writeField(tuple[curField + 1], host, PqEpoch)
       IN  IF w.died
           THEN die("Unknown type code") /\ UNCHANGED <<out, curField>>
           ELSE /\ out' = out \o w.bytes
                /\ curField' = curField + 1
                /\ UNCHANGED <<pc, err, exitStatus>>
    /\ UNCHANGED <<host, tz, PqEpoch, call, field, argc, openOk, inF,
                   inputLine, tuple, lncount>>

\* writeTuple returns; lncount ++; the progress line every 1000 records.
WriteTupleReturn ==
    /\ pc = "writeFields"
    /\ ~writeTupleContinues(curField, QUERY_N_PARS)
    /\ lncount' = lncount + 1
    /\ err' = IF lncount' % 1000 = 0
              THEN Append(err, <<"progress", lncount'>>)
              ELSE err
    /\ pc' = "fgets"
    /\ UNCHANGED <<host, tz, PqEpoch, call, field, argc, openOk, inF,
                   inputLine, tuple, curField, out, exitStatus>>

\* fgets returns NULL: "%08d records done.", and main returns 0.
Done ==
    /\ pc = "fgets"
    /\ fgets(inF).eof
    /\ err' = Append(err, <<"records done", lncount>>)
    /\ exitStatus' = 0
    /\ pc' = "exited"
    /\ UNCHANGED <<host, tz, PqEpoch, call, field, out, driverVars>>

Next ==
    \/ Main
    \/ CheckArgsDie
    \/ OpenInputDie
    \/ OpenInput
    \/ WriteHeader
    \/ ReadRecord
    \/ GetTupleDie
    \/ GetTuple
    \/ WriteTupleCount
    \/ WriteTupleField
    \/ WriteTupleReturn
    \/ Done

Spec == Init /\ [][Next]_vars

-----------------------------------------------------------------------------
(* Claims about the dump driver (Spec) *)

\* The 19 bytes of the stream header: "PGCOPY\n\377\r\n\0", a flags word of
\* 0 and a header extension length of 0.
StreamHeader ==
    <<80, 71, 67, 79, 80, 89, 10, 255, 13, 10, 0>>
    \o <<0, 0, 0, 0>> \o <<0, 0, 0, 0>>

\* The run has passed the argument and input-open checks and the header
\* statement.
PastHeader ==
    \/ pc \in {"fgets", "getTuple", "writeTuple", "writeFields"}
    \/ pc = "exited" /\ exitStatus = 0
    \/ pc = "exited" /\ err # <<>> /\ err[Len(err)][2] \notin {USAGE, "strerror(errno)"}

HeaderLeads ==
    /\ ~PastHeader => out = <<>>
    /\ PastHeader =>
           /\ Len(out) >= 19
           /\ SubSeq(out, 1, 19) = StreamHeader

\* A step that writes output either writes the header to the empty output,
\* or appends row bytes to an output that starts with the header.
WritesHeaderOnce ==
    out' # out =>
        \/ out = <<>> /\ out' = StreamHeader
        \/ /\ pc \in {"writeTuple", "writeFields"}
           /\ Len(out) >= 19
           /\ Len(out') > Len(out)
           /\ SubSeq(out', 1, Len(out)) = out

\* C1: a run that passes the argument and input-open checks writes the
\* 19-byte stream header (signature, flags 0, extension length 0) exactly
\* once and before any row byte, whatever the number of records, zero
\* included.
C1_HeaderOnceAndFirst == [](HeaderLeads) /\ [][WritesHeaderOnce]_vars

\* A run over an input without records has ended with the header alone.
C1_Witness ==
    /\ pc = "exited"
    /\ exitStatus = 0
    /\ inF.records = <<>>
    /\ out = StreamHeader

\* The row of a tuple: the 2-byte big-endian count n and the encodings of the
\* first k fields in index order.
RECURSIVE FieldBytes(_, _)
FieldBytes(fields, k) ==
    IF k = 0 THEN <<>>
    ELSE FieldBytes(fields, k - 1) \o writeField(fields[k], host, PqEpoch).bytes

RowBytes(fields, n, k) == <<n \div 256, n % 256>> \o FieldBytes(fields, k)

\* The rows of the first k records of the input, in input order.
RECURSIVE RowsOf(_, _)
RowsOf(records, k) ==
    IF k = 0 THEN <<>>
    ELSE RowsOf(records, k - 1)
         \o RowBytes(records[k].fields, QUERY_N_PARS, QUERY_N_PARS)

\* C2: writeTuple(fields, n) writes the 2-byte big-endian n and then the
\* encodings of fields[0..n-1] in index order, each once and nothing after
\* the last; rows are in the order of their records, and a row is complete
\* before the next record is read.
C2_RowsInOrder ==
    /\ pc \in {"fgets", "getTuple", "writeTuple"} \/ (pc = "exited" /\ exitStatus = 0) =>
           /\ out = StreamHeader \o RowsOf(inF.records, lncount)
           /\ pc = "fgets" \/ pc = "exited" => inF.pos = lncount
           /\ pc \in {"getTuple", "writeTuple"} => inF.pos = lncount + 1
    /\ pc = "writeFields" =>
           /\ inF.pos = lncount + 1
           /\ tuple = inF.records[inF.pos].fields
           /\ curField <= QUERY_N_PARS
           /\ out = StreamHeader \o RowsOf(inF.records, lncount)
                        \o RowBytes(tuple, QUERY_N_PARS, curField)

\* Two rows whose fields differ in index order have been written.
C2_Witness ==
    /\ pc = "exited"
    /\ exitStatus = 0
    /\ lncount = 2
    /\ inF.records[1].fields[1].type = "VAL_SHORT"
    /\ inF.records[1].fields[2].type = "VAL_NULL"
    /\ inF.records[2].fields[1].type = "VAL_NULL"
    /\ Len(out) > 31
    /\ SubSeq(out, 20, 31) =
           <<0, QUERY_N_PARS, 0, 0, 0, 2, 1, 2, 255, 255, 255, 255>>

-----------------------------------------------------------------------------
(* SpecJd: a Julian date function called once *)

\* Julian day numbers: the first days of the range, the turn of the years
\* 0 and 1, October 1582, the Februaries of 1700, 1900 and 2100, the year
\* 2000 and every day from September 1999 to May 2001.
JdSamples ==
    (0..800) \cup (1721000..1721500) \cup (2299100..2299300)
    \cup (2341950..2342050) \cup (2415000..2415100)
    \cup (2451400..2452000) \cup (2488050..2488150)

\* Fractional Julian Day Numbers that a double holds exactly.
JulianSamples ==
    {<<whole * 256 + part, 256>> :
        whole \in {2440587, 2440588, 2451544, 2451545, 2451603, 2451604,
                   2465000},
        part \in {0, 1, 32, 64, 127, 128, 129, 192, 255}}

JdFields ==
    {Field("VAL_DOUBLE", 0, WithVal("c_double", Rat(j[1], j[2]))) :
        j \in JulianSamples}
    \cup {Field("VAL_NULL", 0, ValZero),
          Field("VAL_FLOAT", 0, WithVal("c_float", <<2451545, 1>>))}

InitJd ==
    /\ host \in {"LE"}
    /\ tz \in TimeZones
    /\ PqEpoch = mktime(pqEpochParts, tz)
    /\ pc = "call"
    /\ \/ /\ field \in JdFields
          /\ call = [fn |-> "makeTimeFromJd", arg |-> field]
       \/ /\ field = Field("VAL_NULL", 0, ValZero)
          /\ \E jd \in JdSamples :
                 call = [fn |-> "j2date", jd |-> jd,
                         year |-> 0, month |-> 0, day |-> 0]
    /\ out = <<>>
    /\ err = <<>>
    /\ exitStatus = -1
    /\ NoDriver

\* j2date(jd, &year, &month, &day)
J2date ==
    /\ pc = "call"
    /\ call.fn = "j2date"
    /\ LET ymd == j2date(call.jd)
       IN  call' = [call EXCEPT !.year = ymd.year, !.month = ymd.month,
                                !.day = ymd.day]
    /\ pc' = "returned"
    /\ UNCHANGED <<host, tz, PqEpoch, field, out, err, exitStatus, driverVars>>

\* makeTimeFromJd(field); assert(field->type==VAL_DOUBLE) aborts the process
\* on any other tag.
MakeTimeFromJd ==
    /\ pc = "call"
    /\ call.fn = "makeTimeFromJd"
    /\ IF field.type = "VAL_DOUBLE"
       THEN /\ field' = makeTimeFromJd(field, tz)
            /\ pc' = "returned"
            /\ UNCHANGED <<err, exitStatus>>
       ELSE /\ err' = Append(err, <<"assert", "field->type==VAL_DOUBLE">>)
            /\ exitStatus' = 134
            /\ pc' = "exited"
            /\ UNCHANGED field
    /\ UNCHANGED <<host, tz, PqEpoch, call, out, driverVars>>

NextJd == J2date \/ MakeTimeFromJd

SpecJd == InitJd /\ [][NextJd]_vars

-----------------------------------------------------------------------------
(* Claims about the Julian date functions (SpecJd) *)

IsLeapYear(y) == y % 4 = 0 /\ (y % 100 # 0 \/ y % 400 = 0)

DaysInMonth(y, m) ==
    CASE m \in {4, 6, 9, 11} -> 30
      [] m = 2 -> IF IsLeapYear(y) THEN 29 ELSE 28
      [] OTHER -> 31

\* The calendar date after the date d.
NextDay(d) ==
    IF d.day < DaysInMonth(d.year, d.month)
    THEN [d EXCEPT !.day = d.day + 1]
    ELSE IF d.month < 12
         THEN [d EXCEPT !.month = d.month + 1, !.day = 1]
         ELSE [year |-> d.year + 1, month |-> 1, day |-> 1]

Dated == pc = "returned" /\ call.fn = "j2date"

DateStored == [year |-> call.year, month |-> call.month, day |-> call.day]

\* C20: for a Julian day number of the supported range j2date returns the
\* proleptic-Gregorian date of that day: the month is in 1..12, the day in
\* 1..the length of that month, the next Julian day number gives the next
\* calendar date (leap days and century years included), and 2451545 gives
\* 2000-01-01.  The date is also the one whose day count from 1970-01-01
\* (Julian day number 2440588) is jd - 2440588.
C20_J2dateIsGregorian ==
    Dated =>
        /\ call.month \in 1..12
        /\ call.day \in 1..DaysInMonth(call.year, call.month)
        /\ j2date(call.jd + 1) = NextDay(DateStored)
        /\ call.jd = 2451545 => DateStored = [year |-> 2000, month |-> 1, day |-> 1]
        /\ DaysFromCivil(call.year, call.month, call.day) = call.jd - 2440588

\* The leap day of the century year 2000 has been returned.
C20_Witness ==
    /\ Dated
    /\ call.jd = 2451604
    /\ DateStored = [year |-> 2000, month |-> 2, day |-> 29]

Made == pc = "returned" /\ call.fn = "makeTimeFromJd"

\* J + 0.5, its integer part and its fractional part, for the call made.
JdShifted == RatAdd(call.arg.val.c_double, <<1, 2>>)
JdDay == RatFloor(JdShifted)
JdFrac == RatAdd(JdShifted, <<-JdDay, 1>>)

\* Hour, minute and second by successive x24, x60, x60 with truncation.
JdHour == RatFloor(RatMul(JdFrac, <<24, 1>>))
JdMinute == RatFloor(RatMul(JdFrac, <<1440, 1>>)) - 60 * JdHour
JdSecond ==
    RatFloor(RatMul(JdFrac, <<86400, 1>>))
        - 60 * RatFloor(RatMul(JdFrac, <<1440, 1>>))

\* C11: makeTimeFromJd on a Double field holding the Julian Day Number J
\* sets the tag to DateTime and the value to the local timestamp of J: the
\* calendar day is that of the integer part of J + 0.5 (counted from
\* 1970-01-01, Julian day number 2440588), hour, minute and second come from
\* the fractional part by x24, x60, x60 with truncation, within 0..23, 0..59
\* and 0..59, and J = 2451545.0 gives 2000-01-01 12:00:00 local.
C11_MakeTimeFromJd ==
    Made =>
        /\ field.type = "VAL_DATETIME"
        /\ field.length = call.arg.length
        /\ JdHour \in 0..23 /\ JdMinute \in 0..59 /\ JdSecond \in 0..59
        /\ field.val.time + tz =
               (JdDay - 2440588) * 86400
                   + JdHour * 3600 + JdMinute * 60 + JdSecond
        /\ call.arg.val.c_double = <<2451545, 1>> =>
               field.val.time + tz =
                   DaysFromCivil(2000, 1, 1) * 86400 + 12 * 3600

\* Julian Day Number 2451545.0 has been converted in a zone east of UTC.
C11_Witness ==
    /\ Made
    /\ tz = 3600
    /\ call.arg.type = "VAL_DOUBLE"
    /\ call.arg.val.c_double = <<2451545, 1>>
    /\ field.type = "VAL_DATETIME"
    /\ field.val.time = 946728000 - 3600

-----------------------------------------------------------------------------
(* Claims about the way a run of the dump driver ends (Spec) *)

\* A record getTuple returns a tuple for, every Field of it with a tag the
\* encoder knows.
CleanRecord(r) ==
    /\ r.kind = "tuple"
    /\ \A i \in 1..QUERY_N_PARS : r.fields[i].type \in valType

BadInvocation == argc > 2

OpenFailure == argc = 2 /\ ~openOk

\* The number of records before the first one with a fatal condition.
RECURSIVE CleanPrefix(_)
CleanPrefix(records) ==
    IF records = <<>> \/ ~CleanRecord(Head(records)) THEN 0
    ELSE 1 + CleanPrefix(Tail(records))

NoFatalCondition ==
    /\ ~BadInvocation
    /\ ~OpenFailure
    /\ CleanPrefix(inF.records) = Len(inF.records)

Diagnostic == err[Len(err)][2]

ExtractionFailed ==
    /\ pc = "exited"
    /\ exitStatus = 1
    /\ err # <<>>
    /\ Diagnostic \in {"Invalid literal", "Bad input line"}

\* C13: no partial row is emitted for a record whose extraction or parsing
\* failed: writeTuple starts only when getTuple has returned the record's
\* full Field sequence, and when getTuple returns no tuple or a parser ends
\* the process the output is the header and the complete rows of the
\* earlier records.
C13_NoPartialRowOnExtractionFailure ==
    /\ pc \in {"writeTuple", "writeFields"} =>
           /\ inF.records[inF.pos].kind = "tuple"
           /\ tuple = inF.records[inF.pos].fields
           /\ Len(tuple) = QUERY_N_PARS
    /\ pc = "writeTuple" =>
           out = StreamHeader \o RowsOf(inF.records, inF.pos - 1)
    /\ ExtractionFailed =>
           /\ inF.records[inF.pos].kind \in {"fatal", "rejected"}
           /\ lncount = inF.pos - 1
           /\ out = StreamHeader \o RowsOf(inF.records, inF.pos - 1)

\* The second record was rejected and the output is the header and the
\* first row.
C13_Witness ==
    /\ ExtractionFailed
    /\ Diagnostic = "Bad input line"
    /\ inF.pos = 2
    /\ Len(out) > 19
    /\ out = StreamHeader \o RowsOf(inF.records, 1)

\* The run ended in writeField, on a Field of a tag the encoder does not know.
UnknownTagReached ==
    /\ pc = "exited"
    /\ exitStatus = 1
    /\ err # <<>>
    /\ Diagnostic = "Unknown type code"

\* The index, counted from 0, of the first Field of unknown tag in fields.
FirstUnknownTag(fields) ==
    (CHOOSE i \in 1..Len(fields) :
        /\ fields[i].type \notin valType
        /\ \A j \in 1..(i - 1) : fields[j].type \in valType) - 1

\* C21: when writeField meets an unrecognized tag at field index i of a row,
\* the row's 2-byte field count and the encodings of fields 0..i-1 of that
\* row have already been written and stay written: the output at process
\* exit is the header, the earlier complete rows, and that incomplete row
\* prefix.
C21_PartialRowStays ==
    /\ pc = "writeFields" /\ curField < QUERY_N_PARS
           /\ tuple[curField + 1].type \notin valType =>
           /\ curField = FirstUnknownTag(tuple)
           /\ out = StreamHeader \o RowsOf(inF.records, lncount)
                        \o RowBytes(tuple, QUERY_N_PARS, curField)
    /\ UnknownTagReached =>
           /\ tuple = inF.records[inF.pos].fields
           /\ inF.pos = lncount + 1
           /\ curField = FirstUnknownTag(tuple)
           /\ out = StreamHeader \o RowsOf(inF.records, lncount)
                        \o RowBytes(tuple, QUERY_N_PARS, FirstUnknownTag(tuple))

\* The run ended on the unknown tag of the second field of the second
\* record: the output ends with that row's field count and its first field.
C21_Witness ==
    /\ UnknownTagReached
    /\ lncount = 1
    /\ curField = 1
    /\ tuple[1].type = "VAL_SHORT"
    /\ tuple[2].type = VAL_OTHER
    /\ Len(out) > 8
    /\ SubSeq(out, Len(out) - 7, Len(out)) =
           <<0, QUERY_N_PARS, 0, 0, 0, 2, 1, 2>>

-----------------------------------------------------------------------------
(* Claims about unknown tags in the encoder (SpecEnc) *)

\* C14: writeField on a Field whose tag the encoder does not recognize ends
\* the process with a diagnostic and exit status 1 and writes no encoding
\* for the field.
C14_UnknownTagIsFatal ==
    pc # "call" /\ call.fn = "writeField" /\ field.type \notin valType =>
        /\ pc = "exited"
        /\ exitStatus = 1
        /\ err = <<<<"importbooster", "Unknown type code">>>>
        /\ out = <<>>

\* writeField has ended the process on a Field of unknown tag.
C14_Witness ==
    /\ pc = "exited"
    /\ call.fn = "writeField"
    /\ field.type = VAL_OTHER
    /\ exitStatus = 1
    /\ out = <<>>

-----------------------------------------------------------------------------
(* SpecScan: real_fieldscanf called once *)

ScanAlphabet == {" ", "1", "x", "-", "."}

\* The strings scanned: every string of up to MaxSrcLen characters, and
\* dates with and without leftovers.
ScanStrings ==
    UNION {[1..k -> ScanAlphabet] : k \in 0..MaxSrcLen}
    \cup {<<"1", "2", "x", "3">>,
          <<"2", "0", "0", "0", "-", "0", "1", "-", "0", "2">>,
          <<"2", "0", "0", "0", "-", "0", "1", "-", "0", "2", "x">>,
          <<"2", "0", "0", "0", "-", "0", "1", "-", "0", "2", " ">>,
          <<"2", "0", "0", "0", "-", "1", "-", "2">>,
          <<"2", "0", "0", "0", "-", "0", "1">>,
          <<"2", "0", "0", "0", "-", "1", "3", "-", "0", "1">>}

\* What the uninitialized members of timeParts may hold.
UnsetTimeParts ==
    {[tm_sec |-> 0, tm_min |-> 0, tm_hour |-> 0],
     [tm_sec |-> 59, tm_min |-> 37, tm_hour |-> 13]}

InitScan ==
    /\ host \in {"LE"}
    /\ tz = 0
    /\ PqEpoch = mktime(pqEpochParts, tz)
    /\ pc = "call"
    /\ \E str \in ScanStrings, type \in valType \cup {VAL_OTHER} :
           call = [fn |-> "real_fieldscanf", str |-> str, type |-> type]
    /\ field = StaleField
    /\ out = <<>>
    /\ err = <<>>
    /\ exitStatus = -1
    /\ NoDriver

Real_fieldscanf ==
    /\ pc = "call"
    /\ call.fn = "real_fieldscanf"
    /\ \E unset \in UnsetTimeParts :
           LET r == real_fieldscanf(call.str, field, call.type, unset, tz)
           IN  IF r.died
               THEN die(r.msg) /\ field' = field
               ELSE /\ field' = r.field
                    /\ pc' = "returned"
                    /\ UNCHANGED <<err, exitStatus>>
    /\ UNCHANGED <<host, tz, PqEpoch, call, out, driverVars>>

NextScan == Real_fieldscanf

SpecScan == InitScan /\ [][NextScan]_vars

-----------------------------------------------------------------------------
(* Claims about real_fieldscanf (SpecScan) *)

Scanned == pc \in {"returned", "exited"} /\ call.fn = "real_fieldscanf"

ScannedTypes ==
    {"VAL_SHORT", "VAL_INT", "VAL_FLOAT", "VAL_DOUBLE", "VAL_JDATE",
     "VAL_DATE", "VAL_DATETIME"}

\* A date in the form of the format "%Y-%m-%d" and nothing else.
IsDateLiteral(str) ==
    /\ Len(str) \in 5..10
    /\ \A i \in 1..Len(str) : isdigit(str[i]) \/ str[i] = "-"
    /\ Cardinality({i \in 1..Len(str) : str[i] = "-"}) = 2
    /\ isdigit(str[1]) /\ isdigit(str[Len(str)])
    /\ \A i \in 1..(Len(str) - 1) : ~(str[i] = "-" /\ str[i + 1] = "-")

\* The whole text is one literal of the requested type.
WhollyParsed(type, str) ==
    CASE type \in {"VAL_SHORT", "VAL_INT"} -> IsIntLiteral(str)
      [] type \in {"VAL_FLOAT", "VAL_DOUBLE", "VAL_JDATE"} -> IsFloatLiteral(str)
      [] OTHER -> IsDateLiteral(str)

\* C15: real_fieldscanf ends the process whenever the requested numeric or
\* date/time parse does not consume the whole text (trailing characters,
\* empty text, whitespace-only text), and maps no input to Null that was not
\* asked to be Null.
C15_ScanConsumesAllOrDies ==
    Scanned =>
        /\ call.type \in ScannedTypes
               /\ ~WhollyParsed(call.type, SkipSpace(call.str)) =>
               pc = "exited" /\ exitStatus = 1
        /\ pc = "returned" /\ call.type # "VAL_NULL" => field.type # "VAL_NULL"

-----------------------------------------------------------------------------
(* Claims about the Text field parseString builds (SpecParse) *)

\* C17: after parseString builds a Text field from a substring of declared
\* width len, Field.length is the byte length of the whitespace-trimmed
\* string stored as the payload, also when the substring has leading or
\* trailing whitespace.
C17_TextLengthIsTrimmedLength ==
    pc = "returned" /\ call.fn = "parseString" =>
        /\ field.type = "VAL_TEXT"
        /\ field.val.c_ptr = Trimmed
        /\ field.length = strlen(field.val.c_ptr)

-----------------------------------------------------------------------------
(* Claims about the Date encoding (SpecEnc) *)

\* C16: a Date field holding the instant t is written as the length 4 and
\* the 4-byte big-endian signed integer floor((t - epoch) / 86400), before
\* the epoch as after it (one second before the epoch is day -1).
C16_DateIsFloorOfDays ==
    Returned /\ field.type = "VAL_DATE" =>
        out = <<0, 0, 0, 4>>
                  \o Numeral(FloorDiv(field.val.time - PqEpoch, 86400), 4)

-----------------------------------------------------------------------------
(* SpecLines: the dump driver reading text lines.  The input is lines      *)
(* text lines of width characters each, the newline included; the          *)
(* extraction function is the environment's.                               *)

INPUT_LINE_MAX == 2000

\* Inputs of a few lines of every width around INPUT_LINE_MAX, and inputs of
\* more than a thousand short lines.
LineInputs ==
    {[lines |-> n, width |-> w, line |-> 0, col |-> 0] :
        n \in {0, 1, 2}, w \in {1, 80, 1998, 1999, 2000, 2001, 4500}}
    \cup {[lines |-> n, width |-> 80, line |-> 0, col |-> 0] :
             n \in {1000, 2001}}

\* fgets(inputLine, size, inF) on text: at most size - 1 characters, up to
\* and including the next newline, or NULL at the end of the input.
fgetsText(file, size) ==
    IF file.line = file.lines
    THEN [eof |-> TRUE, line |-> NULL, file |-> file]
    ELSE LET left  == file.width - file.col
             chars == IF left < size - 1 THEN left ELSE size - 1
         IN  [eof  |-> FALSE,
              line |-> [of |-> file.line + 1, from |-> file.col,
                        chars |-> chars],
              file |-> IF chars = left
                       THEN [file EXCEPT !.line = file.line + 1, !.col = 0]
                       ELSE [file EXCEPT !.col = file.col + chars]]

\* The first k of the byte sequences bss, one after the other.
RECURSIVE Concat(_, _)
Concat(bss, k) == IF k = 0 THEN <<>> ELSE Concat(bss, k - 1) \o bss[k]

\* The fields writeTuple's loop visits: index = 0; while the loop condition
\* holds; index++.
writeTupleVisits(fields, numFields) ==
    {i \in 1..Len(fields) : writeTupleContinues(i - 1, numFields)}

\* The number of fields the loop writes in full: those before the first one
\* writeField dies on.
writeTupleWrites(fields, numFields, h, epoch) ==
    Cardinality({i \in writeTupleVisits(fields, numFields) :
                    \A j \in 1..i : ~writeField(fields[j], h, epoch).died})

\* writeTuple(fields, numFields, destination): the bytes written, up to the
\* field writeField dies on if there is one.
writeTuple(fields, numFields, h, epoch) ==
    [died  |-> writeTupleWrites(fields, numFields, h, epoch)
                   < Cardinality(writeTupleVisits(fields, numFields)),
     bytes |-> DATA_OUT(htons(Numeral(numFields, 2), h), h)
                   \o Concat([i \in 1..Len(fields) |->
                                 writeField(fields[i], h, epoch).bytes],
                             writeTupleWrites(fields, numFields, h, epoch))]

\* Mutant: the progress test without its negation, (lncount%1000).
progressDue_negated(count) == count % 1000 # 0

\* !(lncount%1000)
progressDue(count) == count % 1000 = 0

\* The tuple the extraction function returns for a line it accepts.
LineTuple == [i \in 1..QUERY_N_PARS |-> Field("VAL_NULL", 0, ValZero)]

InitLines ==
    /\ host \in {"LE"}
    /\ tz = 0
    /\ PqEpoch = 0
    /\ pc = "main"
    /\ call = [fn |-> "main"]
    /\ field = Field("VAL_NULL", 0, ValZero)
    /\ argc = 1
    /\ openOk = TRUE
    /\ inF \in LineInputs
    /\ inputLine = NULL
    /\ tuple = NULL
    /\ curField = 0
    /\ lncount = 0
    /\ out = <<>>
    /\ err = <<>>
    /\ exitStatus = -1

\* while (fgets(inputLine, INPUT_LINE_MAX, inF)) ...
ReadText ==
    /\ pc = "fgets"
    /\ LET got == fgetsText(inF, INPUT_LINE_MAX)
       IN  /\ ~got.eof
           /\ inputLine' = got.line
           /\ inF' = got.file
    /\ pc' = "getTuple"
    /\ UNCHANGED <<host, tz, PqEpoch, call, field, argc, openOk, tuple,
                   curField, lncount, out, err, exitStatus>>

\* tuple = getTuple(inputLine); if (!tuple) die("Bad input line: '%s'", ...)
ExtractTuple ==
    /\ pc = "getTuple"
    /\ \E t \in {NULL, LineTuple} :
           /\ tuple' = t
           /\ IF t = NULL
              THEN die("Bad input line")
              ELSE pc' = "writeTuple" /\ UNCHANGED <<err, exitStatus>>
    /\ UNCHANGED <<host, tz, PqEpoch, call, field, argc, openOk, inF,
                   inputLine, curField, lncount, out>>

\* writeTuple(tuple, QUERY_N_PARS, destination); lncount ++; the progress
\* line when it is due.
WriteTuple ==
    /\ pc = "writeTuple"
    /\ LET w == writeTuple(tuple, QUERY_N_PARS, host, PqEpoch)
       IN  IF w.died
           THEN /\ out' = out \o w.bytes
                /\ die("Unknown type code")
                /\ UNCHANGED lncount
           ELSE /\ out' = out \o w.bytes
                /\ lncount' = lncount + 1
                /\ err' = IF progressDue(lncount')
                          THEN Append(err, <<"progress", lncount'>>)
                          ELSE err
                /\ pc' = "fgets"
                /\ UNCHANGED exitStatus
    /\ UNCHANGED <<host, tz, PqEpoch, call, field, argc, openOk, inF,
                   inputLine, tuple, curField>>

\* fgets returns NULL: "%08d records done.", and main returns 0.
EndOfText ==
    /\ pc = "fgets"
    /\ fgetsText(inF, INPUT_LINE_MAX).eof
    /\ err' = Append(err, <<"records done", lncount>>)
    /\ exitStatus' = 0
    /\ pc' = "exited"
    /\ UNCHANGED <<host, tz, PqEpoch, call, field, out, driverVars>>

NextLines ==
    \/ Main
    \/ OpenInput
    \/ WriteHeader
    \/ ReadText
    \/ ExtractTuple
    \/ WriteTuple
    \/ EndOfText

SpecLines == InitLines /\ [][NextLines]_vars

-----------------------------------------------------------------------------
(* Claims about lines, rows and the row counter (SpecLines) *)

\* C18: in line mode each text line of the input is passed to the
\* extraction function exactly once as one record and gives one row,
\* whatever its length: on normal completion the number of rows written is
\* the number of input lines.
C18_OneRowPerLine ==
    /\ pc = "getTuple" =>
           inputLine.from = 0 /\ inputLine.chars = inF.width
    /\ pc = "exited" /\ exitStatus = 0 => lncount = inF.lines

\* k copies of the sequence row, one after the other.
RECURSIVE Repeat(_, _)
Repeat(row, k) ==
    IF k = 0 THEN <<>>
    ELSE LET half == Repeat(row, k \div 2)
         IN  IF k % 2 = 0 THEN half \o half ELSE half \o half \o row

\* The row of a tuple of QUERY_N_PARS Null fields.
NullRow ==
    <<QUERY_N_PARS \div 256, QUERY_N_PARS % 256>>
        \o Repeat(<<255, 255, 255, 255>>, QUERY_N_PARS)

\* The periodic reports due up to the count k, in order.
ReportsUpTo(k) == [i \in 1..(k \div 1000) |-> <<"progress", 1000 * i>>]

\* C19: the row counter is the number of complete rows written; a periodic
\* report is written exactly when the counter reaches a positive multiple
\* of 1000; the final line reports the number of rows written; reports and
\* diagnostics go to the side channel, the output holds the header and the
\* rows only.
C19_CounterAndReports ==
    /\ pc \in {"main", "createDumpfile", "writeHeader"} =>
           out = <<>> /\ lncount = 0 /\ err = <<>>
    /\ pc \in {"fgets", "getTuple", "writeTuple", "exited"} =>
           out = StreamHeader \o Repeat(NullRow, lncount)
    /\ pc # "exited" => err = ReportsUpTo(lncount)
    /\ pc = "exited" /\ exitStatus = 0 =>
           err = ReportsUpTo(lncount) \o <<<<"records done", lncount>>>>
    /\ pc = "exited" /\ exitStatus = 1 =>
           err = ReportsUpTo(lncount) \o <<<<"importbooster", "Bad input line">>>>

\* A run over two lines has ended: two rows in the output, no periodic
\* report, and the final line reports 2.
C19_Witness ==
    /\ pc = "exited"
    /\ exitStatus = 0
    /\ inF.lines = 2
    /\ lncount = 2
    /\ err = <<<<"records done", 2>>>>
    /\ out = StreamHeader \o NullRow \o NullRow


-----------------------------------------------------------------------------
(* The dump driver in the fixed-width mode: FIXED_RECORD_SIZE is defined    *)
(* (SpecFixed). The head of the read loop keeps the label "fgets" of the    *)
(* actions it shares with the line mode; in this mode the read is an fread. *)

\* The record size the catalog's generated code defines; it is at most
\* INPUT_LINE_MAX, the size of the buffer fread fills.
FIXED_RECORD_SIZE == 4

\* The most complete blocks an input holds.
MaxBlocks == 5

\* The input stream inF as a number of bytes and the read position.
FixedInputs ==
    {[size |-> n, pos |-> 0] :
        n \in 0..(MaxBlocks * FIXED_RECORD_SIZE + FIXED_RECORD_SIZE - 1)}

\* fread(inputLine, 1, nmemb, inF): the bytes left, up to nmemb of them.
fread(file, nmemb) ==
    LET left == file.size - file.pos
        n    == IF left < nmemb THEN left ELSE nmemb
    IN  [bytesRead |-> n,
         block     |-> [from |-> file.pos, chars |-> n],
         file      |-> [file EXCEPT !.pos = file.pos + n]]

\* Mutant: a test that takes a block of any length for a record.
isShortRecord_never(bytesRead) == FALSE

\* else if (bytesRead!=FIXED_RECORD_SIZE), reached with bytesRead != 0
isShortRecord(bytesRead) == bytesRead # FIXED_RECORD_SIZE

InitFixed ==
    /\ host \in {"LE", "BE"}
    /\ tz = 0
    /\ PqEpoch = 0
    /\ pc = "main"
    /\ call = [fn |-> "main"]
    /\ field = Field("VAL_NULL", 0, ValZero)
    /\ argc = 1
    /\ openOk = TRUE
    /\ inF \in FixedInputs
    /\ inputLine = NULL
    /\ tuple = NULL
    /\ curField = 0
    /\ lncount = 0
    /\ out = <<>>
    /\ err = <<>>
    /\ exitStatus = -1

\* bytesRead = fread(...); neither 0 nor short: the loop body runs.
ReadBlock ==
    /\ pc = "fgets"
    /\ LET got == fread(inF, FIXED_RECORD_SIZE)
       IN  /\ got.bytesRead # 0
           /\ ~isShortRecord(got.bytesRead)
           /\ inputLine' = got.block
           /\ inF' = got.file
    /\ pc' = "getTuple"
    /\ UNCHANGED <<host, tz, PqEpoch, call, field, argc, openOk, tuple,
                   curField, lncount, out, err, exitStatus>>

\* die("Short record: Only %d bytes read.", bytesRead)
ShortRecord ==
    /\ pc = "fgets"
    /\ LET got == fread(inF, FIXED_RECORD_SIZE)
       IN  /\ got.bytesRead # 0
           /\ isShortRecord(got.bytesRead)
           /\ inputLine' = got.block
           /\ inF' = got.file
           /\ die(<<"Short record", got.bytesRead>>)
    /\ UNCHANGED <<host, tz, PqEpoch, call, field, argc, openOk, tuple,
                   curField, lncount, out>>

\* if (bytesRead==0) break; "%08d records done.", and main returns 0.
EndOfBlocks ==
    /\ pc = "fgets"
    /\ fread(inF, FIXED_RECORD_SIZE).bytesRead = 0
    /\ err' = Append(err, <<"records done", lncount>>)
    /\ exitStatus' = 0
    /\ pc' = "exited"
    /\ UNCHANGED <<host, tz, PqEpoch, call, field, out, driverVars>>

\* tuple = getTuple(inputLine);
\* if (!tuple) die("Bad input line at record %d", lncount)
ExtractTupleFixed ==
    /\ pc = "getTuple"
    /\ \E t \in {NULL, LineTuple} :
           /\ tuple' = t
           /\ IF t = NULL
              THEN die(<<"Bad input line at record", lncount>>)
              ELSE pc' = "writeTuple" /\ UNCHANGED <<err, exitStatus>>
    /\ UNCHANGED <<host, tz, PqEpoch, call, field, argc, openOk, inF,
                   inputLine, curField, lncount, out>>

NextFixed ==
    \/ Main
    \/ OpenInput
    \/ WriteHeader
    \/ ReadBlock
    \/ ShortRecord
    \/ EndOfBlocks
    \/ ExtractTupleFixed
    \/ WriteTuple

SpecFixed == InitFixed /\ [][NextFixed]_vars

-----------------------------------------------------------------------------
(* Claims about blocks and rows in the fixed-width mode (SpecFixed) *)

\* The complete blocks of the input and the bytes after the last of them.
CompleteBlocks == inF.size \div FIXED_RECORD_SIZE

TrailingBytes == inF.size % FIXED_RECORD_SIZE

\* The run ended on a block shorter than the record size.
ShortRecordReached ==
    /\ pc = "exited"
    /\ exitStatus = 1
    /\ err # <<>>
    /\ Diagnostic[1] = "Short record"

\* The run ended in getTuple, on a block it rejected.
BlockRejected ==
    /\ pc = "exited"
    /\ exitStatus = 1
    /\ err # <<>>
    /\ Diagnostic[1] = "Bad input line at record"

\* C22: in the fixed-width mode a read that returns 0 bytes ends the run
\* normally with the final count, and a final block shorter than the record
\* size is fatal (exit 1) with no row written for it, after the rows of all
\* earlier complete blocks have been written; every complete block yields
\* exactly one row.
C22_FixedWidthBlocks ==
    /\ pc \in {"fgets", "getTuple", "writeTuple", "exited"} =>
           out = StreamHeader \o Repeat(NullRow, lncount)
    /\ pc = "fgets" => inF.pos = lncount * FIXED_RECORD_SIZE
    /\ pc \in {"getTuple", "writeTuple"} =>
           /\ inF.pos = (lncount + 1) * FIXED_RECORD_SIZE
           /\ inputLine = [from  |-> lncount * FIXED_RECORD_SIZE,
                           chars |-> FIXED_RECORD_SIZE]
    /\ pc = "exited" =>
           /\ ShortRecordReached \/ BlockRejected \/ exitStatus = 0
           /\ ~BlockRejected => lncount = CompleteBlocks
           /\ ~BlockRejected => (exitStatus = 0 <=> TrailingBytes = 0)
    /\ pc = "exited" /\ exitStatus = 0 =>
           /\ inF.pos = inF.size
           /\ err = <<<<"records done", lncount>>>>
    /\ ShortRecordReached =>
           /\ inF.pos = inF.size
           /\ inputLine = [from  |-> CompleteBlocks * FIXED_RECORD_SIZE,
                           chars |-> TrailingBytes]
           /\ err = <<<<"importbooster", <<"Short record", TrailingBytes>>>>>>
    /\ BlockRejected =>
           /\ lncount < CompleteBlocks
           /\ err = <<<<"importbooster",
                        <<"Bad input line at record", lncount>>>>>>

\* A run over two complete blocks and a third, shorter one has ended on the
\* short block: two rows in the output and none for the short block.
C22_Witness ==
    /\ ShortRecordReached
    /\ inF.size = 2 * FIXED_RECORD_SIZE + 1
    /\ lncount = 2
    /\ Diagnostic = <<"Short record", 1>>
    /\ out = StreamHeader \o NullRow \o NullRow

=============================================================================
